---- MODULE Spec2Model ----
(***************************************************************************)
(* jlv: the worker-per-kind stream coordinator (processor.Run and the      *)
(* stream* functions) together with the bubbletea Model that drives it.    *)
(*                                                                         *)
(* Processes: the UI event loop (Model.Update, one message at a time), the *)
(* coordinator loop of Run, one worker goroutine per kind (content,        *)
(* groups), and one goroutine per tea.Cmd (reloadContent, reloadGroups).   *)
(* program.Send and every channel of Run are unbuffered: a send is a       *)
(* rendezvous with the receiver, so a delivery is one action that moves    *)
(* the sender on and runs the handler.                                     *)
(*                                                                         *)
(* Goroutines of one kind that are at the same place with the same data    *)
(* are not told apart: the tea.Cmds and the blocked senders are bags, the  *)
(* pipeline tasks a set of records.                                        *)
(*                                                                         *)
(* Seven specifications share the variables:                               *)
(*   Spec         the coordination of the pipelines and the group list;    *)
(*                it follows neither the panes nor the child processes,    *)
(*                which stay as constructed;                               *)
(*   FieldSpec    the same steps, started with the selector option .a      *)
(*                over a file that may hold an object under a;             *)
(*   DisplaySpec  the output pane (caches, wrap, line numbers, zoom,       *)
(*                window size, scrolling) and the filter sub-mode of the   *)
(*                group list over the content pipeline of the start-up     *)
(*                selector;                                                *)
(*   StreamSpec   one call of streamContent or streamGroups, child         *)
(*                process by child process;                                *)
(*   GroupPaneSpec  both pipelines under the panes: group events, zoom     *)
(*                and window size together;                                *)
(*   PerStartSpec the goroutine-per-Start revision of Run                  *)
(*                (src/internal/processor/processor.go);                   *)
(*   FilterSpec   the sed filter of the column-bounding revision of        *)
(*                streamContent (src/unnamed/part_002).                    *)
(***************************************************************************)
EXTENDS Integers, Sequences, FiniteSets, Bags, TLC

\* ---------------------------------------------------------------- bounds
\* number of keys that change the text of a box or the selection of the
\* group list
MaxEdits == 2
\* number of records the watched file can hold
MaxFile == 2
\* longest text typed into the selector box
MaxSelLen == 3
\* longest text typed into the format box
MaxFmtLen == 1
\* number of countLines calls that fail (file unreadable)
MaxFail == 1
\* lines one live pipeline hands to its scanner
MaxLines == 2

\* ------------------------------------------------------------- the file
VARIABLES
    mixed               \* the second record of the file holds an object under a

\* Record i of the watched file is the object {"a": Level(i)}; in a mixed
\* file the second record is {"a": {"b": 1}}.
Level(i) ==
    IF i % 2 = 1 THEN "info" ELSE "error"

ObjectValued(i) ==
    mixed /\ i = 2

\* The i-th character the user types into the selector box: ".a" followed
\* by dots (".a." and longer are not valid jq paths).
PathChar(i) ==
    IF i = 2 THEN "a" ELSE "."

\* The i-th character the user types into the format box.
FormatChar(i) ==
    IF i = 1 THEN "." ELSE "a"

\* Output tokens of a content pipeline: record i's formatted value is the
\* token i; the other lines a pipeline can produce are named here.
\* jq's diagnostic, read through the MultiReader after stdout
DiagLine == 0
\* strings.Split of an empty output
EmptyLine == 0 - 1

\* ------------------------------------------------------- query builders
\* (variant) the query built from the arguments as they come
createJQContentQueryAsGiven(selector, group, format) ==
    IF group = "*"
    THEN <<".|select(", selector, ")|", format>>
    ELSE <<".|select(", selector, "==\"", group, "\")|", format>>

\* createJQContentQuery: the pieces of the Sprintf, in order.
createJQContentQuery(selector, group, format) ==
    LET s == IF selector = <<>> THEN <<".">> ELSE selector
        f == IF format = <<>> THEN <<".">> ELSE format
    IN  IF group = "*"
        THEN <<".|select(", s, ")|", f>>
        ELSE <<".|select(", s, "==\"", group, "\")|", f>>

createGroupsSelectorArg(selector) ==
    IF selector = <<>> THEN <<".">> ELSE <<".|select(", selector, ")|", selector>>

\* The string a content query is: what Sprintf writes, the literal parts of
\* the format string and the group name as one item each, the selector and
\* the format character by character.
QueryText(query) ==
    IF Len(query) = 4
    THEN <<query[1]>> \o query[2] \o <<query[3]>> \o query[4]
    ELSE <<query[1]>> \o query[2] \o <<query[3], query[4], query[5]>> \o query[6]

\* ------------------------------------------------------------------- jq
\* jq compiles the path: "." and ".a" are programs, ".a." and longer are not.
JqCompiles(path) ==
    path \in {<<".">>, <<".", "a">>}

\* select(...) of a content query on record i.
JqContentSelects(query, i) ==
    IF Len(query) = 4
    THEN TRUE
    ELSE query[2] = <<".", "a">> /\ ~ObjectValued(i) /\ Level(i) = query[4]

RECURSIVE JqContentOutput(_, _, _)
\* jq -r query over records lo..hi: one value per selected record.
JqContentOutput(query, lo, hi) ==
    IF lo > hi
    THEN <<>>
    ELSE (IF JqContentSelects(query, lo) THEN <<lo>> ELSE <<>>)
         \o JqContentOutput(query, lo + 1, hi)

\* What the replay pipe yields for a file of len records: jq's stdout, or
\* its diagnostic when the query does not compile.
ReplayContent(query, len) ==
    IF JqCompiles(query[2]) THEN JqContentOutput(query, 1, len) ELSE <<DiagLine>>

\* The lines jq -r prints for record i under a groups query.
JqGroupsRecord(query, i) ==
    IF Len(query) = 1 \/ query[2] = <<".">>
    THEN <<"{", "  \"a\": ", "}">>
    ELSE IF ObjectValued(i)
    THEN <<"{", "  \"b\": 1", "}">>
    ELSE <<Level(i)>>

RECURSIVE JqGroupsOutput(_, _, _)
JqGroupsOutput(query, lo, hi) ==
    IF lo > hi
    THEN <<>>
    ELSE JqGroupsRecord(query, lo) \o JqGroupsOutput(query, lo + 1, hi)

GroupsQueryCompiles(query) ==
    Len(query) = 1 \/ JqCompiles(query[2])

ReplayGroups(query, len) ==
    IF GroupsQueryCompiles(query) THEN JqGroupsOutput(query, 1, len) ELSE <<"jq: error">>

\* line == "" || line[0] == '{' || line[0] == '['
LooksLikeJson(line) ==
    line \in {"", "{", "["}

\* -------------------------------------------------------- the group list
\* Byte order of the names that can occur.
Rank(name) ==
    CASE name = "" -> 0
      [] name = "  \"a\": " -> 1
      [] name = "  \"b\": 1" -> 2
      [] name = "*" -> 3
      [] name = "[" -> 4
      [] name = "error" -> 5
      [] name = "info" -> 6
      [] name = "jq: error" -> 7
      [] name = "{" -> 8
      [] name = "}" -> 9

RECURSIVE SortedSeq(_)
SortedSeq(S) ==
    IF S = {}
    THEN <<>>
    ELSE LET m == CHOOSE x \in S : \A y \in S : Rank(x) <= Rank(y)
         IN  <<m>> \o SortedSeq(S \ {m})

\* getGroupItems: slices.Sorted(maps.Keys(groups))
getGroupItems(groupSet) ==
    SortedSeq(groupSet)

\* ------------------------------------------------------------------ text
\* A string is the sequence of its characters; "\n" is the line feed.
\* reloadContent's placeholder, as a line of the raw cache
LoadingLine == 0 - 2

Digit(d) ==
    <<"0", "1", "2", "3", "4", "5", "6", "7", "8", "9">>[d + 1]

RECURSIVE Decimal(_)
\* %d
Decimal(n) ==
    IF n < 10 THEN <<Digit(n)>> ELSE Append(Decimal(n \div 10), Digit(n % 10))

RECURSIVE PadLeft(_, _)
\* the 5 of %5d: blanks in front, up to the width
PadLeft(str, w) ==
    IF Len(str) >= w THEN str ELSE PadLeft(<<" ">> \o str, w)

\* The text of a line of the raw cache: the value jq printed for a record,
\* jq's diagnostic, the empty string, or the placeholder.
LineText(token) ==
    CASE token = EmptyLine -> <<>>
      [] token = DiagLine -> <<"j", "q", ":", " ", "e", "r", "r", "o", "r">>
      [] token = LoadingLine -> <<"L", "o", "a", "d", "i", "n", "g", ".", ".", ".">>
      [] OTHER -> <<"r">> \o Decimal(token)

RECURSIVE Hardwrap(_, _)
\* ansi.Hardwrap(line, limit, true) of a line without line feeds: a line
\* feed before every character that would pass the limit.
Hardwrap(str, limit) ==
    IF limit < 1 \/ Len(str) <= limit
    THEN str
    ELSE SubSeq(str, 1, limit) \o <<"\n">> \o Hardwrap(SubSeq(str, limit + 1, Len(str)), limit)

\* smaller and larger of two integers
min(a, b) ==
    IF a < b THEN a ELSE b

max(a, b) ==
    IF a > b THEN a ELSE b

\* line[:min(len(line), width)] is a run-time panic for a negative width.
SlicePanics(wrapped, width) ==
    ~wrapped /\ width < 0

\* formatContentLine, where it does not panic.
formatContentLine(wrapped, numbered, idx, width, line) ==
    LET text == IF numbered THEN PadLeft(Decimal(idx), 5) \o <<":", " ">> \o line ELSE line
    IN  IF ~wrapped
        THEN <<SubSeq(text, 1, min(Len(text), width))>>
        ELSE <<Hardwrap(text, width)>>

RECURSIVE FormatFrom(_, _, _, _, _)
\* the loop of updateOutputModelContent from index idx on
FormatFrom(wrapped, numbered, width, raw, idx) ==
    IF idx > Len(raw)
    THEN <<>>
    ELSE formatContentLine(wrapped, numbered, idx, width, LineText(raw[idx]))
             \o FormatFrom(wrapped, numbered, width, raw, idx + 1)

RECURSIVE Join(_)
\* strings.Join(lines, "\n")
Join(lines) ==
    IF lines = <<>> THEN <<>>
    ELSE IF Len(lines) = 1 THEN lines[1]
    ELSE lines[1] \o <<"\n">> \o Join(Tail(lines))

RECURSIVE Split(_)
\* strings.Split(str, "\n"): one line more than there are line feeds
Split(str) ==
    IF \A i \in DOMAIN str : str[i] # "\n"
    THEN <<str>>
    ELSE LET k == CHOOSE i \in DOMAIN str :
                      str[i] = "\n" /\ \A j \in 1..(i - 1) : str[j] # "\n"
         IN  <<SubSeq(str, 1, k - 1)>> \o Split(SubSeq(str, k + 1, Len(str)))

\* -------------------------------------------------------------- viewport
\* viewport.Model as the record [Width, Height, YOffset, lines].
\* viewport.New(0, 0)
NewViewport ==
    [Width |-> 0, Height |-> 0, YOffset |-> 0, lines |-> <<>>]

maxYOffset(vp) ==
    max(0, Len(vp.lines) - vp.Height)

\* (variant) the viewport keeps its offset
StayPut(vp) ==
    vp

GotoBottom(vp) ==
    [vp EXCEPT !.YOffset = maxYOffset(vp)]

GotoTop(vp) ==
    [vp EXCEPT !.YOffset = 0]

\* SetContent: the offset is kept unless it is past the last line.
SetContent(vp, str) ==
    LET set == [vp EXCEPT !.lines = Split(str)]
    IN  IF set.YOffset > Len(set.lines) - 1 THEN GotoBottom(set) ELSE set

\* ScrollPercent() == 1.0
ScrollPercentIsOne(vp) ==
    \/ vp.Height >= Len(vp.lines)
    \/ vp.YOffset >= Len(vp.lines) - vp.Height

\* the down key: LineDown(1)
LineDown(vp) ==
    IF vp.YOffset >= maxYOffset(vp) \/ vp.lines = <<>>
    THEN vp
    ELSE [vp EXCEPT !.YOffset = min(vp.YOffset + 1, maxYOffset(vp))]

\* the up key: LineUp(1)
LineUp(vp) ==
    IF vp.YOffset <= 0
    THEN vp
    ELSE [vp EXCEPT !.YOffset = max(min(vp.YOffset - 1, maxYOffset(vp)), 0)]

\* ---------------------------------------------------------------- state
VARIABLES
    \* Model (model.go)
    selectorValue,      \* m.selectorModel.Value(), a sequence of characters
    formatValue,        \* m.formatModel.Value()
    groups,             \* m.groups, the keys of the map
    groupItems,         \* the items of m.groupsModel, as set by SetItems
    cursor,             \* the index of m.groupsModel
    selectedWindow,     \* m.selectedWindow
    jq,                 \* m.jq, the query of the footer
    processorCmdChan,   \* m.processorCmdChan is not nil
    contentStopped,     \* m.contentStopped
    groupsStopped,      \* m.groupsStopped
    uiPc,               \* the event loop: "run", blocked in stopProcessor
                        \* ("stop", or "nil" on a nil channel), or "quit"
    quitIssued,         \* number of tea.Quit commands Update has returned
    rawOutputContent,   \* m.rawOutputContent, a sequence of line tokens
    outputContent,      \* m.outputContent, a sequence of strings
    outputModel,        \* m.outputModel, the viewport
    groupsWidth,        \* m.groupsModel.Width()
    zoomed,             \* m.zoomed
    wrap,               \* m.wrap
    lineNumbers,        \* m.lineNumbers
    width,              \* m.width
    height,             \* m.height
    atBottom,           \* m.atBottom
    panicked,           \* Update has panicked (the event loop ends)
    filterState,        \* m.groupsModel.FilterState()
    \* Run (part_001)
    coordPc,            \* position of the coordinator loop
    cmds,               \* bag: tea.Cmds returned by Update and not yet run
    senders,            \* bag: Commands whose goroutine is blocked on cmdChan
    tasks,              \* set: streamArgs queued or being executed
    \* environment
    edits,              \* keys that changed a box or the selection so far
    fileLen,            \* number of records in the watched file
    failures,           \* countLines calls that failed so far
    errored,            \* history: the kinds whose Error event Update has
                        \* handled with no key changing a box or the
                        \* selection handled since
    \* one call of stream* (StreamSpec)
    stream              \* its position, its context and its child processes

vars ==
    <<selectorValue, formatValue, groups, groupItems, cursor, selectedWindow, jq,
      processorCmdChan, contentStopped, groupsStopped, uiPc, quitIssued, coordPc,
      cmds, senders, tasks, edits, fileLen, failures, rawOutputContent,
      outputContent, outputModel, groupsWidth, zoomed, wrap, lineNumbers, width,
      height, atBottom, panicked, stream, mixed, filterState, errored>>

\* the fields of Model
uiVars ==
    <<selectorValue, formatValue, groups, groupItems, cursor, selectedWindow, jq,
      processorCmdChan, contentStopped, groupsStopped, uiPc, quitIssued>>

\* the fields of Model behind the output pane
paneVars ==
    <<rawOutputContent, outputContent, outputModel, groupsWidth, zoomed, wrap,
      lineNumbers, width, height, atBottom, panicked>>

\* windowType (model.go)
selectorWindow == 0
formatWindow == 1
groupsWindow == 2
outputWindow == 3

\* A task is the streamArgs of one Start command together with the locals
\* of stream*, sendInitial* and streamNew* while its worker executes it:
\*   pc         "queued" (Run is sending it to the worker), "jq", "count",
\*              "err", "read", "start", "tail", "line"
\*   cancelled  args.ctx is done
\*   n          the counted line number
\*   pos        next record of the file the tail process emits
\*   burst, gburst   InitialContent / InitialGroups once read
\*   line, gline     the scanned line about to be sent
\* and, as history of the instance:
\*   cur        Run holds this task's cancel function (it is the newest
\*              task of its kind that Run has accepted)
\*   late       the UI handled one of its events although it had been
\*              cancelled before its replay burst was delivered
\*   delivered  the records whose output the UI received from it, in order
NewTask(cmd) ==
    [kind |-> cmd.kind, sel |-> cmd.sel, grp |-> cmd.grp, fmt |-> cmd.fmt,
     pc |-> "queued", cancelled |-> FALSE, n |-> 0, pos |-> 0,
     burst |-> <<>>, gburst |-> <<>>, line |-> 0, gline |-> "",
     cur |-> TRUE, late |-> FALSE, delivered |-> <<>>]

\* between entering streamContent / streamGroups and returning from it
Executing(t) ==
    t.pc \in {"jq", "count", "err", "read", "start", "tail", "line"}

\* blocked in program.Send with a Started, line or error event
Sending(t) ==
    t.pc \in {"err", "start", "line"}

\* A call of stream* that has not been entered: no child process yet.
IdleStream ==
    [kind |-> "none", pc |-> "idle", done |-> FALSE, sent |-> <<>>,
     head |-> "unstarted", jq |-> "unstarted", tail |-> "unstarted",
     tailJq |-> "unstarted", attempted |-> {}, lines |-> 0]

\* NewModel, with the Selector, Wrap and LineNumbers of the options.
NewModel(selectorOpt, wrapOpt, lineNumbersOpt) ==
    /\ selectorValue = selectorOpt
    /\ formatValue = <<>>
    /\ groups = {"*"}
    /\ groupItems = getGroupItems({"*"})
    /\ cursor = 0
    /\ selectedWindow = selectorWindow
    /\ jq = <<>>
    /\ processorCmdChan = FALSE
    /\ contentStopped = FALSE
    /\ groupsStopped = FALSE
    /\ rawOutputContent = <<>>
    /\ outputContent = <<>>
    /\ outputModel = NewViewport
    /\ groupsWidth = 10
    /\ filterState = "unfiltered"
    /\ zoomed = FALSE
    /\ wrap = wrapOpt
    /\ lineNumbers = lineNumbersOpt
    /\ width = 0
    /\ height = 0
    /\ atBottom = TRUE

\* main: p.Run() and go processor.Run(p), over a file of len records; all
\* values under a are strings unless the file is a mixed one.
Started(len, withObject) ==
    /\ mixed = withObject
    /\ uiPc = "run"
    /\ quitIssued = 0
    /\ panicked = FALSE
    /\ coordPc = "hello"
    /\ cmds = EmptyBag
    /\ senders = EmptyBag
    /\ tasks = {}
    /\ edits = 0
    /\ fileLen = len
    /\ failures = 0
    /\ errored = {}

Init ==
    /\ NewModel(<<".">>, FALSE, FALSE)
    /\ Started(1, FALSE)
    /\ stream = IdleStream

\* ---------------------------------------------------------------- helpers
Range(seq) ==
    {seq[i] : i \in DOMAIN seq}

BagAdd(bag, e) ==
    bag (+) SetToBag({e})

BagRemove(bag, e) ==
    bag (-) SetToBag({e})

\* list.Model.SelectedItem: nil when the index is past the items.
SelectedItem(items, index) ==
    IF index + 1 \in DOMAIN items THEN items[index + 1] ELSE "nil"

\* selectedItemText of reloadContent: the sentinel when nothing is selected.
SelectedItemText(items, index) ==
    IF SelectedItem(items, index) = "nil" THEN "*" ELSE SelectedItem(items, index)

\* len(newValue) > 1 && strings.HasSuffix(newValue, ".")
EndsInSeparator(value) ==
    Len(value) > 1 /\ value[Len(value)] = "."

\* The tea.Cmd (m.reloadGroups or m.reloadContent) that handler by returns,
\* with the values the Model holds when it returns it.
Pending(kind, by, selector, group, format) ==
    [kind |-> kind, by |-> by, sel |-> selector, grp |-> group, fmt |-> format]

\* jqQuery of streamContent / streamGroups.
QueryOf(t) ==
    IF t.kind = "content"
    THEN createJQContentQuery(t.sel, t.grp, t.fmt)
    ELSE createGroupsSelectorArg(t.sel)

\* Update has handled an event of task t.
Handled(t) ==
    [t EXCEPT !.late = @ \/ (t.cancelled /\ t.pc \in {"jq", "err", "start"})]

\* the cancel function of task t's context
Cancel(t) ==
    [t EXCEPT !.cancelled = TRUE]

\* case Start*Operation: the held cancel function is called and replaced.
Supersede(t) ==
    [Cancel(t) EXCEPT !.cur = FALSE]

\* (variant) the worker starts every task in a goroutine of its own
WorkerSpawns(kind) ==
    TRUE

\* A worker is in its receive (for ... <-contentChan) only between tasks.
WorkerFree(kind) ==
    \A t \in tasks : t.kind = kind => ~Executing(t)

\* (variant) tea.Quit on the first Stopped event
QuitAtOnce ==
    TRUE

\* if m.groupsStopped { cmd = tea.Quit }
QuitAfterContentStopped ==
    groupsStopped

\* if m.contentStopped { cmd = tea.Quit }
QuitAfterGroupsStopped ==
    contentStopped

\* ------------------------------------------------------ the user's keys
\* (variant) tab moves the focus also while zoomed
KeyTabZoomed ==
    /\ uiPc = "run"
    /\ selectedWindow' = (selectedWindow + 1) % 4
    /\ UNCHANGED <<paneVars, stream, mixed, filterState, errored>>
    /\ UNCHANGED <<selectorValue, formatValue, groups, groupItems, cursor, jq,
                   processorCmdChan, contentStopped, groupsStopped, uiPc,
                   quitIssued, coordPc, cmds, senders, tasks, edits, fileLen,
                   failures>>

\* tab: focus moves forward.
KeyTab ==
    /\ uiPc = "run"
    /\ ~zoomed
    /\ selectedWindow' = (selectedWindow + 1) % 4
    /\ UNCHANGED <<paneVars, stream, mixed, filterState, errored>>
    /\ UNCHANGED <<selectorValue, formatValue, groups, groupItems, cursor, jq,
                   processorCmdChan, contentStopped, groupsStopped, uiPc,
                   quitIssued, coordPc, cmds, senders, tasks, edits, fileLen,
                   failures>>

\* (variant) shift+tab moves the focus as tab does
KeyShiftTabForward ==
    /\ uiPc = "run"
    /\ ~zoomed
    /\ selectedWindow' = (selectedWindow + 1) % 4
    /\ UNCHANGED <<paneVars, stream, mixed, filterState, errored>>
    /\ UNCHANGED <<selectorValue, formatValue, groups, groupItems, cursor, jq,
                   processorCmdChan, contentStopped, groupsStopped, uiPc,
                   quitIssued, coordPc, cmds, senders, tasks, edits, fileLen,
                   failures>>

\* shift+tab: focus moves backward.
KeyShiftTab ==
    /\ uiPc = "run"
    /\ ~zoomed
    /\ selectedWindow' = (selectedWindow + 3) % 4
    /\ UNCHANGED <<paneVars, stream, mixed, filterState, errored>>
    /\ UNCHANGED <<selectorValue, formatValue, groups, groupItems, cursor, jq,
                   processorCmdChan, contentStopped, groupsStopped, uiPc,
                   quitIssued, coordPc, cmds, senders, tasks, edits, fileLen,
                   failures>>

\* esc, not zoomed: stopProcessor sends on the command channel inside
\* Update, so the event loop blocks until Run receives (for ever on a nil
\* channel).
KeyEsc ==
    /\ uiPc = "run"
    /\ ~zoomed
    /\ ~(selectedWindow = groupsWindow /\ filterState = "filtering")
    /\ uiPc' = IF processorCmdChan THEN "stop" ELSE "nil"
    /\ UNCHANGED <<paneVars, stream, mixed, filterState, errored>>
    /\ UNCHANGED <<selectorValue, formatValue, groups, groupItems, cursor,
                   selectedWindow, jq, processorCmdChan, contentStopped,
                   groupsStopped, quitIssued, coordPc, cmds, senders, tasks,
                   edits, fileLen, failures>>

\* handleSelectorMessage for a key that makes the value newValue.
handleSelectorMessage(newValue) ==
    /\ selectorValue' = newValue
    /\ edits < MaxEdits
    /\ edits' = edits + 1
    /\ cmds' = IF EndsInSeparator(newValue)
               THEN cmds
               ELSE BagAdd(cmds, Pending("groups", "selector", newValue, "*", <<>>))
    /\ errored' = {}
    /\ UNCHANGED <<paneVars, stream, mixed, filterState>>
    /\ UNCHANGED <<formatValue, groups, groupItems, cursor, selectedWindow, jq,
                   processorCmdChan, contentStopped, groupsStopped, uiPc,
                   quitIssued, coordPc, senders, tasks, fileLen, failures>>

\* A character typed into the selector box.
KeySelectorType ==
    /\ uiPc = "run"
    /\ selectedWindow = selectorWindow
    /\ Len(selectorValue) < MaxSelLen
    /\ handleSelectorMessage(Append(selectorValue, PathChar(Len(selectorValue) + 1)))

\* Backspace in the selector box.
KeySelectorBackspace ==
    /\ uiPc = "run"
    /\ selectedWindow = selectorWindow
    /\ Len(selectorValue) > 0
    /\ handleSelectorMessage(SubSeq(selectorValue, 1, Len(selectorValue) - 1))

\* handleFormatMessage for a key that makes the value newValue.
handleFormatMessage(newValue) ==
    /\ formatValue' = newValue
    /\ edits < MaxEdits
    /\ edits' = edits + 1
    /\ cmds' = BagAdd(cmds, Pending("content", "format", selectorValue,
                                    SelectedItemText(groupItems, cursor), newValue))
    /\ errored' = {}
    /\ UNCHANGED <<paneVars, stream, mixed, filterState>>
    /\ UNCHANGED <<selectorValue, groups, groupItems, cursor, selectedWindow, jq,
                   processorCmdChan, contentStopped, groupsStopped, uiPc,
                   quitIssued, coordPc, senders, tasks, fileLen, failures>>

\* A character typed into the format box.
KeyFormatType ==
    /\ uiPc = "run"
    /\ selectedWindow = formatWindow
    /\ Len(formatValue) < MaxFmtLen
    /\ handleFormatMessage(Append(formatValue, FormatChar(Len(formatValue) + 1)))

\* Backspace in the format box.
KeyFormatBackspace ==
    /\ uiPc = "run"
    /\ selectedWindow = formatWindow
    /\ Len(formatValue) > 0
    /\ handleFormatMessage(SubSeq(formatValue, 1, Len(formatValue) - 1))

\* list.Model's CursorDown and CursorUp on one page, followed by the clamp
\* of the index that ends its key handling.
CursorDown(index, count) ==
    LET moved == IF index + 1 < count THEN index + 1
                 ELSE IF index + 1 > count THEN 0
                 ELSE count - 1
    IN  IF moved > count - 1 THEN (IF count > 0 THEN count - 1 ELSE 0) ELSE moved

CursorUp(index, count) ==
    LET moved == IF index - 1 < 0 THEN 0 ELSE index - 1
    IN  IF moved > count - 1 THEN (IF count > 0 THEN count - 1 ELSE 0) ELSE moved

\* handleGroupsMessage for a key that moves the cursor to newCursor.
handleGroupsMessage(newCursor) ==
    /\ cursor' = newCursor
    /\ IF SelectedItem(groupItems, cursor) = SelectedItem(groupItems, newCursor)
       THEN UNCHANGED <<cmds, edits, errored>>
       ELSE /\ edits < MaxEdits
            /\ edits' = edits + 1
            /\ errored' = {}
            /\ cmds' = BagAdd(cmds, Pending("content", "groups", selectorValue,
                                            SelectedItemText(groupItems, newCursor),
                                            formatValue))
    /\ UNCHANGED <<paneVars, stream, mixed, filterState>>
    /\ UNCHANGED <<selectorValue, formatValue, groups, groupItems, selectedWindow,
                   jq, processorCmdChan, contentStopped, groupsStopped, uiPc,
                   quitIssued, coordPc, senders, tasks, fileLen, failures>>

\* down in the group list
KeyGroupsDown ==
    /\ uiPc = "run"
    /\ selectedWindow = groupsWindow
    /\ filterState = "unfiltered"
    /\ handleGroupsMessage(CursorDown(cursor, Len(groupItems)))

\* up in the group list
KeyGroupsUp ==
    /\ uiPc = "run"
    /\ selectedWindow = groupsWindow
    /\ filterState = "unfiltered"
    /\ handleGroupsMessage(CursorUp(cursor, Len(groupItems)))

\* / in the group list: the list enters its filtering sub-mode with the
\* cursor on the first item; a changed selection reloads the content.
KeyFilter ==
    /\ uiPc = "run"
    /\ ~zoomed
    /\ selectedWindow = groupsWindow
    /\ filterState = "unfiltered"
    /\ filterState' = "filtering"
    /\ cursor' = 0
    /\ cmds' = IF SelectedItem(groupItems, cursor) = SelectedItem(groupItems, 0)
               THEN cmds
               ELSE BagAdd(cmds, Pending("content", "groups", selectorValue,
                                         SelectedItemText(groupItems, 0), formatValue))
    /\ errored' = IF SelectedItem(groupItems, cursor) = SelectedItem(groupItems, 0)
                  THEN errored
                  ELSE {}
    /\ UNCHANGED <<paneVars, stream, mixed>>
    /\ UNCHANGED <<selectorValue, formatValue, groups, groupItems, selectedWindow,
                   jq, processorCmdChan, contentStopped, groupsStopped, uiPc,
                   quitIssued, coordPc, senders, tasks, edits, fileLen, failures>>

\* esc while the group list is focused and filtering: the key goes to the
\* list, which leaves the sub-mode; stopProcessor is not called.
KeyEscFiltering ==
    /\ uiPc = "run"
    /\ ~zoomed
    /\ selectedWindow = groupsWindow
    /\ filterState = "filtering"
    /\ filterState' = "unfiltered"
    /\ UNCHANGED <<paneVars, stream, mixed, errored>>
    /\ UNCHANGED <<selectorValue, formatValue, groups, groupItems, cursor,
                   selectedWindow, jq, processorCmdChan, contentStopped,
                   groupsStopped, uiPc, quitIssued, coordPc, cmds, senders, tasks,
                   edits, fileLen, failures>>

\* ------------------------------------------------- tea.Cmd goroutines
\* The processor.Command a tea.Cmd goroutine builds.
Command(kind, selector, group, format) ==
    [kind |-> kind, sel |-> selector, grp |-> group, fmt |-> format]

\* m.processorCmdChan <- command: the goroutine stays blocked in the send
\* until Run receives; on a nil channel, or once Run has returned, no one
\* ever does, and the goroutine is not kept.
Blocked(command) ==
    IF processorCmdChan /\ coordPc # "done" THEN BagAdd(senders, command) ELSE senders

\* reloadContent, run by its goroutine up to the channel send: it reads the
\* boxes and the list as they are now.  A send on a nil channel never ends.
reloadContent(cmd) ==
    /\ uiPc # "quit"
    /\ cmd.kind = "content"
    /\ cmds' = BagRemove(cmds, cmd)
    /\ senders' = Blocked(Command("content", selectorValue,
                                   SelectedItemText(groupItems, cursor), formatValue))
    /\ UNCHANGED <<paneVars, stream, mixed, filterState, errored>>
    /\ UNCHANGED <<uiVars, coordPc, tasks, edits, fileLen, failures>>

\* reloadGroups, run by its goroutine up to the channel send: it resets the
\* groups map and reads the selector box as it is now.
reloadGroups(cmd) ==
    /\ uiPc # "quit"
    /\ cmd.kind = "groups"
    /\ groups' = {"*"}
    /\ cmds' = BagRemove(cmds, cmd)
    /\ senders' = Blocked(Command("groups", selectorValue, "*", <<>>))
    /\ UNCHANGED <<paneVars, stream, mixed, filterState, errored>>
    /\ UNCHANGED <<selectorValue, formatValue, groupItems, cursor, selectedWindow,
                   jq, processorCmdChan, contentStopped, groupsStopped, uiPc,
                   quitIssued, coordPc, tasks, edits, fileLen, failures>>

\* ------------------------------------------------------------------ Run
\* program.Send(CommandChannel) received: handleCommandChannel.
handleCommandChannel ==
    /\ uiPc = "run"
    /\ coordPc = "hello"
    /\ coordPc' = "loop"
    /\ processorCmdChan' = TRUE
    /\ cmds' = BagAdd(cmds, Pending("content", "channel", selectorValue,
                                    SelectedItemText(groupItems, cursor), formatValue))
    /\ UNCHANGED <<paneVars, stream, mixed, filterState, errored>>
    /\ UNCHANGED <<selectorValue, formatValue, groups, groupItems, cursor,
                   selectedWindow, jq, contentStopped, groupsStopped, uiPc,
                   quitIssued, senders, tasks, edits, fileLen, failures>>

\* (variant) one cancellation scope for both kinds
AcceptSharedScope(cmd) ==
    {IF ~t.cur THEN t ELSE IF t.kind = cmd.kind THEN Supersede(t) ELSE Cancel(t) :
        t \in tasks} \cup {NewTask(cmd)}

\* The tasks after Run has received Start command cmd: the held cancel
\* function of the kind is called and the new streamArgs are built.
Accept(cmd) ==
    {IF t.kind = cmd.kind /\ t.cur THEN Supersede(t) ELSE t : t \in tasks}
        \cup {NewTask(cmd)}

\* case StartContentOperation, up to the send on contentChan.
RunStartContent(cmd) ==
    /\ uiPc # "quit"
    /\ coordPc = "loop"
    /\ cmd.kind = "content"
    /\ senders' = BagRemove(senders, cmd)
    /\ tasks' = Accept(cmd)
    /\ coordPc' = "sendContent"
    /\ UNCHANGED <<paneVars, stream, mixed, filterState, errored>>
    /\ UNCHANGED <<uiVars, cmds, edits, fileLen, failures>>

\* case StartGroupsOperation, up to the send on groupsChan.
RunStartGroups(cmd) ==
    /\ uiPc # "quit"
    /\ coordPc = "loop"
    /\ cmd.kind = "groups"
    /\ senders' = BagRemove(senders, cmd)
    /\ tasks' = Accept(cmd)
    /\ coordPc' = "sendGroups"
    /\ UNCHANGED <<paneVars, stream, mixed, filterState, errored>>
    /\ UNCHANGED <<uiVars, cmds, edits, fileLen, failures>>

\* case StopOperation: the event loop's send is received, both contexts are
\* cancelled, both channels are closed and Run returns.
RunStop ==
    /\ uiPc = "stop"
    /\ coordPc = "loop"
    /\ uiPc' = "run"
    /\ coordPc' = "done"
    /\ tasks' = {IF t.cur THEN Cancel(t) ELSE t : t \in tasks}
    /\ senders' = EmptyBag
    /\ UNCHANGED <<paneVars, stream, mixed, filterState, errored>>
    /\ UNCHANGED <<selectorValue, formatValue, groups, groupItems, cursor,
                   selectedWindow, jq, processorCmdChan, contentStopped,
                   groupsStopped, quitIssued, cmds, edits, fileLen, failures>>

\* The tasks after the worker of a kind has received the queued streamArgs
\* and entered stream*.
Received(kind, pc) ==
    {IF t.kind = kind /\ t.pc = "queued" THEN [t EXCEPT !.pc = pc] ELSE t : t \in tasks}

\* The content worker receives streamArgs and enters streamContent.
ContentWorkerReceive ==
    /\ uiPc # "quit"
    /\ coordPc = "sendContent"
    /\ WorkerFree("content")
    /\ coordPc' = "loop"
    /\ tasks' = Received("content", "jq")
    /\ UNCHANGED <<paneVars, stream, mixed, filterState, errored>>
    /\ UNCHANGED <<uiVars, cmds, senders, edits, fileLen, failures>>

\* The groups worker receives streamArgs and enters streamGroups.
GroupsWorkerReceive ==
    /\ uiPc # "quit"
    /\ coordPc = "sendGroups"
    /\ WorkerFree("groups")
    /\ coordPc' = "loop"
    /\ tasks' = Received("groups", "count")
    /\ UNCHANGED <<paneVars, stream, mixed, filterState, errored>>
    /\ UNCHANGED <<uiVars, cmds, senders, edits, fileLen, failures>>

\* The content worker finds its channel closed; Update handles ContentStopped.
ContentStopped ==
    /\ uiPc = "run"
    /\ coordPc = "done"
    /\ WorkerFree("content")
    /\ ~contentStopped
    /\ contentStopped' = TRUE
    /\ quitIssued' = IF QuitAfterContentStopped THEN quitIssued + 1 ELSE quitIssued
    /\ UNCHANGED <<paneVars, stream, mixed, filterState, errored>>
    /\ UNCHANGED <<selectorValue, formatValue, groups, groupItems, cursor,
                   selectedWindow, jq, processorCmdChan, groupsStopped, uiPc,
                   coordPc, cmds, senders, tasks, edits, fileLen, failures>>

\* The groups worker finds its channel closed; Update handles GroupsStopped.
GroupsStopped ==
    /\ uiPc = "run"
    /\ coordPc = "done"
    /\ WorkerFree("groups")
    /\ ~groupsStopped
    /\ groupsStopped' = TRUE
    /\ quitIssued' = IF QuitAfterGroupsStopped THEN quitIssued + 1 ELSE quitIssued
    /\ UNCHANGED <<paneVars, stream, mixed, filterState, errored>>
    /\ UNCHANGED <<selectorValue, formatValue, groups, groupItems, cursor,
                   selectedWindow, jq, processorCmdChan, contentStopped, uiPc,
                   coordPc, cmds, senders, tasks, edits, fileLen, failures>>

\* The event loop receives the QuitMsg of a tea.Quit command and ends.
Quit ==
    /\ uiPc = "run"
    /\ quitIssued > 0
    /\ uiPc' = "quit"
    /\ UNCHANGED <<paneVars, stream, mixed, filterState, errored>>
    /\ UNCHANGED <<selectorValue, formatValue, groups, groupItems, cursor,
                   selectedWindow, jq, processorCmdChan, contentStopped,
                   groupsStopped, quitIssued, coordPc, cmds, senders, tasks,
                   edits, fileLen, failures>>

\* ------------------------------------------------------ pipeline tasks
\* The tasks after task t has moved on to u.
Step(t, u) ==
    (tasks \ {t}) \cup {u}

\* The tasks after stream* has returned for task t.
Return(t) ==
    tasks \ {t}

\* sendInitialContent: program.Send(JQCommand) received; handleProcessorJQCommand.
JQCommand(t) ==
    /\ uiPc = "run"
    /\ t.pc = "jq"
    /\ jq' = QueryOf(t)
    /\ tasks' = Step(t, [Handled(t) EXCEPT !.pc = "count"])
    /\ UNCHANGED <<paneVars, stream, mixed, filterState, errored>>
    /\ UNCHANGED <<selectorValue, formatValue, groups, groupItems, cursor,
                   selectedWindow, processorCmdChan, contentStopped, groupsStopped,
                   uiPc, quitIssued, coordPc, cmds, senders, edits, fileLen,
                   failures>>

\* countLines, join and start of head | jq: the count can fail; start
\* returns context.Canceled, silently, when the ctx is done.
countLines(t) ==
    /\ uiPc # "quit"
    /\ t.pc = "count"
    /\ \/ /\ failures < MaxFail
          /\ failures' = failures + 1
          /\ tasks' = Step(t, [t EXCEPT !.pc = "err"])
       \/ /\ UNCHANGED failures
          /\ tasks' = IF t.cancelled
                      THEN Return(t)
                      ELSE Step(t, [t EXCEPT !.pc = "read", !.n = fileLen])
    /\ UNCHANGED <<paneVars, stream, mixed, filterState, errored>>
    /\ UNCHANGED <<uiVars, coordPc, cmds, senders, edits, fileLen>>

\* InitialContent of ContentStart: TrimRight and Split of the bytes read.
InitialContent(query, len) ==
    IF ReplayContent(query, len) = <<>> THEN <<EmptyLine>> ELSE ReplayContent(query, len)

\* InitialGroups of GroupsStart: nothing when the output is empty or its
\* first byte is '{' or '['.
InitialGroups(query, len) ==
    IF ReplayGroups(query, len) # <<>> /\ Head(ReplayGroups(query, len)) \notin {"{", "["}
    THEN ReplayGroups(query, len)
    ELSE <<>>

\* io.ReadAll of the replay pipe, kill, and the ctx.Done() check.  jq is
\* given the path, so it reads the file as it is now, not head's output.
readInitial(t) ==
    /\ uiPc # "quit"
    /\ t.pc = "read"
    /\ tasks' = IF t.cancelled
                THEN Return(t)
                ELSE IF t.kind = "content"
                THEN Step(t, [t EXCEPT !.pc = "start",
                                       !.burst = InitialContent(QueryOf(t), fileLen)])
                ELSE Step(t, [t EXCEPT !.pc = "start",
                                       !.gburst = InitialGroups(QueryOf(t), fileLen)])
    /\ UNCHANGED <<paneVars, stream, mixed, filterState, errored>>
    /\ UNCHANGED <<uiVars, coordPc, cmds, senders, edits, fileLen, failures>>

\* The records among the lines of a burst.
Records(burst) ==
    SelectSeq(burst, LAMBDA x : x > 0)

\* program.Send(ContentStart) received; handleProcessorContentStart.
ContentStart(t) ==
    /\ uiPc = "run"
    /\ t.pc = "start"
    /\ t.kind = "content"
    /\ tasks' = Step(t, [Handled(t) EXCEPT !.pc = "tail",
                                           !.n = 0,
                                           !.pos = t.n + 1,
                                           !.delivered = Records(t.burst),
                                           !.burst = <<>>])
    /\ UNCHANGED <<paneVars, stream, mixed, filterState, errored>>
    /\ UNCHANGED <<uiVars, coordPc, cmds, senders, edits, fileLen, failures>>

\* program.Send(GroupsStart) received; handleProcessorGroupsStart, which
\* returns reloadContent.
GroupsStart(t) ==
    /\ uiPc = "run"
    /\ t.pc = "start"
    /\ t.kind = "groups"
    /\ groups' = {"*"} \cup Range(t.gburst)
    /\ groupItems' = getGroupItems(groups')
    /\ cursor' = 0
    /\ cmds' = BagAdd(cmds, Pending("content", "start", selectorValue,
                                    SelectedItemText(groupItems', 0), formatValue))
    /\ tasks' = Step(t, [Handled(t) EXCEPT !.pc = "tail",
                                           !.n = 0,
                                           !.pos = t.n + 1,
                                           !.gburst = <<>>])
    /\ UNCHANGED <<paneVars, stream, mixed, filterState, errored>>
    /\ UNCHANGED <<selectorValue, formatValue, selectedWindow, jq, processorCmdChan,
                   contentStopped, groupsStopped, uiPc, quitIssued, coordPc,
                   senders, edits, fileLen, failures>>

\* program.Send(ContentError) received; handleProcessorContentError.
ContentError(t) ==
    /\ uiPc = "run"
    /\ t.pc = "err"
    /\ t.kind = "content"
    /\ jq' = QueryOf(t)
    /\ groupItems' = getGroupItems(groups)
    /\ tasks' = Return(t)
    /\ errored' = errored \cup {"content"}
    /\ UNCHANGED <<paneVars, stream, mixed, filterState>>
    /\ UNCHANGED <<selectorValue, formatValue, groups, cursor, selectedWindow,
                   processorCmdChan, contentStopped, groupsStopped, uiPc,
                   quitIssued, coordPc, cmds, senders, edits, fileLen, failures>>

\* program.Send(GroupsError) received; handleProcessorGroupError.
GroupsError(t) ==
    /\ uiPc = "run"
    /\ t.pc = "err"
    /\ t.kind = "groups"
    /\ jq' = QueryOf(t)
    /\ groups' = {"*"}
    /\ groupItems' = getGroupItems(groups')
    /\ tasks' = Return(t)
    /\ errored' = errored \cup {"groups"}
    /\ UNCHANGED <<paneVars, stream, mixed, filterState>>
    /\ UNCHANGED <<selectorValue, formatValue, cursor, selectedWindow,
                   processorCmdChan, contentStopped, groupsStopped, uiPc,
                   quitIssued, coordPc, cmds, senders, edits, fileLen, failures>>

\* The records from..len that a content query selects.
Selected(query, from, len) ==
    {i \in from..len : JqContentSelects(query, i)}

Min(S) ==
    CHOOSE x \in S : \A y \in S : x <= y

\* streamNewContent: start of tail | jq and one turn of the scanner loop,
\* up to program.Send(ContentLine).  The tail begins at record n + 1.
streamNewContent(t) ==
    /\ uiPc # "quit"
    /\ t.pc = "tail"
    /\ t.kind = "content"
    /\ IF t.cancelled
       THEN tasks' = Return(t)
       ELSE IF ~JqCompiles(QueryOf(t)[2])
       THEN tasks' = Step(t, [t EXCEPT !.pc = "line", !.line = DiagLine])
       ELSE /\ Selected(QueryOf(t), t.pos, fileLen) # {}
            /\ tasks' = Step(t, [t EXCEPT
                                    !.pc = "line",
                                    !.line = Min(Selected(QueryOf(t), t.pos, fileLen)),
                                    !.pos = Min(Selected(QueryOf(t), t.pos, fileLen)) + 1])
    /\ UNCHANGED <<paneVars, stream, mixed, filterState, errored>>
    /\ UNCHANGED <<uiVars, coordPc, cmds, senders, edits, fileLen, failures>>

\* streamNewGroups: start of tail | jq and one turn of the scanner loop, up
\* to program.Send(GroupsLine) or the self-cancel on a JSON-looking line.
streamNewGroups(t) ==
    /\ uiPc # "quit"
    /\ t.pc = "tail"
    /\ t.kind = "groups"
    /\ IF t.cancelled
       THEN tasks' = Return(t)
       ELSE IF ~GroupsQueryCompiles(QueryOf(t))
       THEN tasks' = Step(t, [t EXCEPT !.pc = "line", !.gline = "jq: error"])
       ELSE /\ t.pos <= fileLen
            /\ tasks' = IF LooksLikeJson(Head(JqGroupsRecord(QueryOf(t), t.pos)))
                        THEN Return(t)
                        ELSE Step(t, [t EXCEPT
                                         !.pc = "line",
                                         !.gline = Head(JqGroupsRecord(QueryOf(t), t.pos)),
                                         !.pos = t.pos + 1])
    /\ UNCHANGED <<paneVars, stream, mixed, filterState, errored>>
    /\ UNCHANGED <<uiVars, coordPc, cmds, senders, edits, fileLen, failures>>

\* program.Send(ContentLine) received; handleProcessorContentLine.  After
\* jq's diagnostic the pipe is at EOF and streamNewContent returns.
ContentLine(t) ==
    /\ uiPc = "run"
    /\ t.pc = "line"
    /\ t.kind = "content"
    /\ tasks' = IF t.line = DiagLine
                THEN Return(t)
                ELSE Step(t, [Handled(t) EXCEPT !.pc = "tail",
                                                !.line = 0,
                                                !.delivered = Append(t.delivered, t.line)])
    /\ UNCHANGED <<paneVars, stream, mixed, filterState, errored>>
    /\ UNCHANGED <<uiVars, coordPc, cmds, senders, edits, fileLen, failures>>

\* program.Send(GroupsLine) received; handleProcessorGroupLine.
GroupsLine(t) ==
    /\ uiPc = "run"
    /\ t.pc = "line"
    /\ t.kind = "groups"
    /\ groups' = groups \cup {t.gline}
    /\ groupItems' = getGroupItems(groups')
    /\ tasks' = IF t.gline = "jq: error"
                THEN Return(t)
                ELSE Step(t, [Handled(t) EXCEPT !.pc = "tail", !.gline = ""])
    /\ UNCHANGED <<paneVars, stream, mixed, filterState, errored>>
    /\ UNCHANGED <<selectorValue, formatValue, cursor, selectedWindow, jq,
                   processorCmdChan, contentStopped, groupsStopped, uiPc,
                   quitIssued, coordPc, cmds, senders, edits, fileLen, failures>>

\* ---------------------------------------------------------- environment
\* A record is appended to the watched file.
AppendRecord ==
    /\ uiPc # "quit"
    /\ fileLen < MaxFile
    /\ fileLen' = fileLen + 1
    /\ UNCHANGED <<paneVars, stream, mixed, filterState, errored>>
    /\ UNCHANGED <<uiVars, coordPc, cmds, senders, tasks, edits, failures>>

\* ------------------------------------------------------ the output pane
\* terminal sizes a WindowSizeMsg carries (the list is 10 columns wide, so
\* the first leaves the output pane a negative width)
Widths ==
    {10, 22}

Heights ==
    {11}

\* msg.Err.Error() + "\n" + msg.Message of an error event
ErrorText ==
    <<"e", "r", "r", "\n", "c", "o", "u", "n", "t">>

\* What updateOutputModelContent computes from the given settings, raw
\* cache, viewport and pin flag: the formatted cache rebuilt line by line,
\* and the viewport with the joined lines, at the bottom when pinned.
Reformat(wrapped, numbered, raw, vp, pin) ==
    LET lines == FormatFrom(wrapped, numbered, vp.Width, raw, 1)
    IN  [content |-> lines,
         view |-> IF pin
                  THEN GotoBottom(SetContent(vp, Join(lines)))
                  ELSE SetContent(vp, Join(lines))]

\* updateOutputModelContent.  A panic in formatContentLine ends the event
\* loop with the formatted cache emptied.
updateOutputModelContent(wrapped, numbered, raw, vp) ==
    IF SlicePanics(wrapped, vp.Width) /\ raw # <<>>
    THEN /\ outputContent' = <<>>
         /\ outputModel' = vp
         /\ panicked' = TRUE
         /\ uiPc' = "quit"
    ELSE /\ outputContent' = Reformat(wrapped, numbered, raw, vp, atBottom).content
         /\ outputModel' = Reformat(wrapped, numbered, raw, vp, atBottom).view
         /\ UNCHANGED <<panicked, uiPc>>

\* handleWindowSize for a message of the given size, with m.zoomed as given.
resize(zoom, w, h) ==
    /\ width' = w
    /\ height' = h
    /\ updateOutputModelContent(wrap, lineNumbers, rawOutputContent,
           [outputModel EXCEPT !.Width = IF zoom THEN w ELSE w - groupsWidth - 4,
                               !.Height = IF zoom THEN h - 2 ELSE h - 10])

\* tea.WindowSizeMsg received.
handleWindowSize(w, h) ==
    /\ uiPc = "run"
    /\ resize(zoomed, w, h)
    /\ UNCHANGED <<selectorValue, formatValue, groups, groupItems, cursor,
                   selectedWindow, jq, processorCmdChan, contentStopped,
                   groupsStopped, quitIssued, rawOutputContent, groupsWidth, zoomed,
                   wrap, lineNumbers, atBottom>>
    /\ UNCHANGED <<coordPc, cmds, senders, tasks, edits, fileLen, failures, stream, mixed, filterState, errored>>

\* f with the output pane focused: zoom is toggled and the panes resized.
KeyZoom ==
    /\ uiPc = "run"
    /\ selectedWindow = outputWindow
    /\ zoomed' = ~zoomed
    /\ resize(~zoomed, width, height)
    /\ UNCHANGED <<selectorValue, formatValue, groups, groupItems, cursor,
                   selectedWindow, jq, processorCmdChan, contentStopped,
                   groupsStopped, quitIssued, rawOutputContent, groupsWidth, wrap,
                   lineNumbers, atBottom>>
    /\ UNCHANGED <<coordPc, cmds, senders, tasks, edits, fileLen, failures, stream, mixed, filterState, errored>>

\* esc while zoomed: the zoom ends and the panes are resized.
KeyEscZoomed ==
    /\ uiPc = "run"
    /\ zoomed
    /\ zoomed' = FALSE
    /\ resize(FALSE, width, height)
    /\ UNCHANGED <<selectorValue, formatValue, groups, groupItems, cursor,
                   selectedWindow, jq, processorCmdChan, contentStopped,
                   groupsStopped, quitIssued, rawOutputContent, groupsWidth, wrap,
                   lineNumbers, atBottom>>
    /\ UNCHANGED <<coordPc, cmds, senders, tasks, edits, fileLen, failures, stream, mixed, filterState, errored>>

\* (variant) w also returns m.reloadContent
KeyWrapReloads ==
    /\ uiPc = "run"
    /\ selectedWindow = outputWindow
    /\ wrap' = ~wrap
    /\ updateOutputModelContent(~wrap, lineNumbers, rawOutputContent, outputModel)
    /\ cmds' = BagAdd(cmds, Pending("content", "format", selectorValue,
                                    SelectedItemText(groupItems, cursor), formatValue))
    /\ UNCHANGED <<selectorValue, formatValue, groups, groupItems, cursor,
                   selectedWindow, jq, processorCmdChan, contentStopped,
                   groupsStopped, quitIssued, rawOutputContent, groupsWidth, zoomed,
                   lineNumbers, width, height, atBottom>>
    /\ UNCHANGED <<coordPc, senders, tasks, edits, fileLen, failures, stream, mixed, filterState, errored>>

\* w with the output pane focused: wrap is toggled, the cache reformatted.
KeyWrap ==
    /\ uiPc = "run"
    /\ selectedWindow = outputWindow
    /\ wrap' = ~wrap
    /\ updateOutputModelContent(~wrap, lineNumbers, rawOutputContent, outputModel)
    /\ UNCHANGED <<selectorValue, formatValue, groups, groupItems, cursor,
                   selectedWindow, jq, processorCmdChan, contentStopped,
                   groupsStopped, quitIssued, rawOutputContent, groupsWidth, zoomed,
                   lineNumbers, width, height, atBottom>>
    /\ UNCHANGED <<coordPc, cmds, senders, tasks, edits, fileLen, failures, stream, mixed, filterState, errored>>

\* l with the output pane focused: line numbers are toggled, the cache
\* reformatted.
KeyLineNumbers ==
    /\ uiPc = "run"
    /\ selectedWindow = outputWindow
    /\ lineNumbers' = ~lineNumbers
    /\ updateOutputModelContent(wrap, ~lineNumbers, rawOutputContent, outputModel)
    /\ UNCHANGED <<selectorValue, formatValue, groups, groupItems, cursor,
                   selectedWindow, jq, processorCmdChan, contentStopped,
                   groupsStopped, quitIssued, rawOutputContent, groupsWidth, zoomed,
                   wrap, width, height, atBottom>>
    /\ UNCHANGED <<coordPc, cmds, senders, tasks, edits, fileLen, failures, stream, mixed, filterState, errored>>

\* The variables a key of the output pane that only scrolls leaves alone.
scrollFrame ==
    <<selectorValue, formatValue, groups, groupItems, cursor, selectedWindow, jq,
      processorCmdChan, contentStopped, groupsStopped, uiPc, quitIssued,
      rawOutputContent, outputContent, groupsWidth, zoomed, wrap, lineNumbers,
      width, height, panicked, coordPc, cmds, senders, tasks, edits, fileLen,
      failures, stream, mixed, filterState, errored>>

\* G with the output pane focused.
KeyGotoBottom ==
    /\ uiPc = "run"
    /\ selectedWindow = outputWindow
    /\ outputModel' = GotoBottom(outputModel)
    /\ atBottom' = TRUE
    /\ UNCHANGED scrollFrame

\* g with the output pane focused.
KeyGotoTop ==
    /\ uiPc = "run"
    /\ selectedWindow = outputWindow
    /\ atBottom' = FALSE
    /\ outputModel' = GotoTop(outputModel)
    /\ UNCHANGED scrollFrame

\* handleOutputMessage for a key that makes the viewport scrolled.
handleOutputMessage(scrolled) ==
    /\ uiPc = "run"
    /\ zoomed \/ selectedWindow = outputWindow
    /\ outputModel' = scrolled
    /\ atBottom' = ScrollPercentIsOne(scrolled)
    /\ UNCHANGED scrollFrame

\* down in the output pane
KeyOutputDown ==
    handleOutputMessage(LineDown(outputModel))

\* up in the output pane
KeyOutputUp ==
    handleOutputMessage(LineUp(outputModel))

\* a key the viewport has no binding for (tab while zoomed, a letter)
KeyOutputOther ==
    handleOutputMessage(outputModel)

\* reloadContent as its goroutine runs it: the placeholder is written into
\* both caches and the viewport, outside Update, then the command is sent.
reloadContentLoading(cmd) ==
    /\ uiPc # "quit"
    /\ cmd.kind = "content"
    /\ rawOutputContent' = <<LoadingLine>>
    /\ outputContent' = <<LineText(LoadingLine)>>
    /\ outputModel' = SetContent(outputModel, LineText(LoadingLine))
    /\ cmds' = BagRemove(cmds, cmd)
    /\ senders' = Blocked(Command("content", selectorValue,
                                   SelectedItemText(groupItems, cursor), formatValue))
    /\ UNCHANGED <<uiVars, groupsWidth, zoomed, wrap, lineNumbers, width, height,
                   atBottom, panicked>>
    /\ UNCHANGED <<coordPc, tasks, edits, fileLen, failures, stream, mixed, filterState, errored>>

\* program.Send(ContentStart) received; handleProcessorContentStart with
\* its updateOutputModelContent.
handleProcessorContentStart(t) ==
    /\ uiPc = "run"
    /\ t.pc = "start"
    /\ t.kind = "content"
    /\ rawOutputContent' = t.burst
    /\ updateOutputModelContent(wrap, lineNumbers, t.burst, outputModel)
    /\ tasks' = Step(t, [Handled(t) EXCEPT !.pc = "tail",
                                           !.n = 0,
                                           !.pos = t.n + 1,
                                           !.delivered = Records(t.burst),
                                           !.burst = <<>>])
    /\ UNCHANGED <<selectorValue, formatValue, groups, groupItems, cursor,
                   selectedWindow, jq, processorCmdChan, contentStopped,
                   groupsStopped, quitIssued, groupsWidth, zoomed, wrap, lineNumbers,
                   width, height, atBottom>>
    /\ UNCHANGED <<coordPc, cmds, senders, edits, fileLen, failures, stream, mixed, filterState, errored>>

\* program.Send(ContentLine) received; handleProcessorContentLine: the line
\* is appended to both caches, formatted under the number of the formatted
\* cache, and a pinned viewport goes to the bottom.
handleProcessorContentLine(t) ==
    /\ uiPc = "run"
    /\ t.pc = "line"
    /\ t.kind = "content"
    /\ rawOutputContent' = Append(rawOutputContent, t.line)
    /\ IF SlicePanics(wrap, outputModel.Width)
       THEN /\ panicked' = TRUE
            /\ uiPc' = "quit"
            /\ UNCHANGED <<outputContent, outputModel>>
       ELSE /\ outputContent' = outputContent
                  \o formatContentLine(wrap, lineNumbers, Len(outputContent) + 1,
                                       outputModel.Width, LineText(t.line))
            /\ outputModel' = IF atBottom
                              THEN GotoBottom(SetContent(outputModel, Join(outputContent')))
                              ELSE SetContent(outputModel, Join(outputContent'))
            /\ UNCHANGED <<panicked, uiPc>>
    /\ tasks' = IF t.line = DiagLine
                THEN Return(t)
                ELSE Step(t, [Handled(t) EXCEPT !.pc = "tail",
                                                !.line = 0,
                                                !.delivered = Append(t.delivered, t.line)])
    /\ UNCHANGED <<selectorValue, formatValue, groups, groupItems, cursor,
                   selectedWindow, jq, processorCmdChan, contentStopped,
                   groupsStopped, quitIssued, groupsWidth, zoomed, wrap, lineNumbers,
                   width, height, atBottom>>
    /\ UNCHANGED <<coordPc, cmds, senders, edits, fileLen, failures, stream, mixed, filterState, errored>>

\* program.Send(ContentError) received; handleProcessorContentError: the
\* viewport shows the error text, the caches stay.
handleProcessorContentError(t) ==
    /\ uiPc = "run"
    /\ t.pc = "err"
    /\ t.kind = "content"
    /\ jq' = QueryOf(t)
    /\ groupItems' = getGroupItems(groups)
    /\ outputModel' = SetContent(outputModel, ErrorText)
    /\ tasks' = Return(t)
    /\ errored' = errored \cup {"content"}
    /\ UNCHANGED <<selectorValue, formatValue, groups, cursor, selectedWindow,
                   processorCmdChan, contentStopped, groupsStopped, uiPc,
                   quitIssued, rawOutputContent, outputContent, groupsWidth, zoomed,
                   wrap, lineNumbers, width, height, atBottom, panicked>>
    /\ UNCHANGED <<coordPc, cmds, senders, edits, fileLen, failures, stream, mixed, filterState>>

\* ---------------------------------------------------------------- specs
Next ==
    \/ KeyTab
    \/ KeyShiftTab
    \/ KeyEsc
    \/ KeySelectorType
    \/ KeySelectorBackspace
    \/ KeyFormatType
    \/ KeyFormatBackspace
    \/ KeyGroupsDown
    \/ KeyGroupsUp
    \/ \E cmd \in BagToSet(cmds) : reloadContent(cmd)
    \/ \E cmd \in BagToSet(cmds) : reloadGroups(cmd)
    \/ handleCommandChannel
    \/ \E cmd \in BagToSet(senders) : RunStartContent(cmd)
    \/ \E cmd \in BagToSet(senders) : RunStartGroups(cmd)
    \/ RunStop
    \/ ContentWorkerReceive
    \/ GroupsWorkerReceive
    \/ ContentStopped
    \/ GroupsStopped
    \/ Quit
    \/ \E t \in tasks : JQCommand(t)
    \/ \E t \in tasks : countLines(t)
    \/ \E t \in tasks : readInitial(t)
    \/ \E t \in tasks : ContentStart(t)
    \/ \E t \in tasks : GroupsStart(t)
    \/ \E t \in tasks : ContentError(t)
    \/ \E t \in tasks : GroupsError(t)
    \/ \E t \in tasks : streamNewContent(t)
    \/ \E t \in tasks : streamNewGroups(t)
    \/ \E t \in tasks : ContentLine(t)
    \/ \E t \in tasks : GroupsLine(t)
    \/ AppendRecord

Spec ==
    Init /\ [][Next]_vars

\* The program started without options over a file that is empty or holds
\* one record.
DisplayInit ==
    /\ NewModel(<<".">>, FALSE, FALSE)
    /\ \E len \in 0..1 : Started(len, FALSE)
    /\ stream = IdleStream

\* The output pane over the content pipelines: the one handleCommandChannel
\* starts and those of format edits.  No key changes the selector or the
\* selection of the group list, so no groups pipeline runs.
DisplayNext ==
    \/ KeyTab
    \/ KeyShiftTab
    \/ KeyFormatType
    \/ KeyFilter
    \/ KeyEscFiltering
    \/ KeyZoom
    \/ KeyEscZoomed
    \/ KeyWrap
    \/ KeyLineNumbers
    \/ KeyGotoBottom
    \/ KeyGotoTop
    \/ KeyOutputDown
    \/ KeyOutputUp
    \/ KeyOutputOther
    \/ \E w \in Widths, h \in Heights : handleWindowSize(w, h)
    \/ handleCommandChannel
    \/ \E cmd \in BagToSet(cmds) : reloadContentLoading(cmd)
    \/ \E cmd \in BagToSet(senders) : RunStartContent(cmd)
    \/ ContentWorkerReceive
    \/ \E t \in tasks : JQCommand(t)
    \/ \E t \in tasks : countLines(t)
    \/ \E t \in tasks : readInitial(t)
    \/ \E t \in tasks : handleProcessorContentStart(t)
    \/ \E t \in tasks : handleProcessorContentError(t)
    \/ \E t \in tasks : streamNewContent(t)
    \/ \E t \in tasks : handleProcessorContentLine(t)
    \/ AppendRecord

DisplaySpec ==
    DisplayInit /\ [][DisplayNext]_vars

\* The program started with --selector .a over a file of one record; the
\* record appended next holds a string or an object under a.
FieldInit ==
    /\ NewModel(<<".", "a">>, FALSE, FALSE)
    /\ \E withObject \in BOOLEAN : Started(1, withObject)
    /\ stream = IdleStream

FieldSpec ==
    FieldInit /\ [][Next]_vars

\* ------------------------------- the goroutine-per-Start revision of Run
\* Run of src/internal/processor/processor.go: case Start*Operation calls
\* the held cancel function of the kind and starts stream* for the command
\* in a goroutine of its own; Run is back in its receive at once.
\* streamContent begins with program.Send(JQCommand), streamGroups with
\* countLines.
RunPerStart(cmd) ==
    /\ uiPc # "quit"
    /\ coordPc = "loop"
    /\ senders' = BagRemove(senders, cmd)
    /\ tasks' = {IF t.kind = cmd.kind /\ t.cur THEN Supersede(t) ELSE t : t \in tasks}
                    \cup {[NewTask(cmd) EXCEPT
                              !.pc = IF cmd.kind = "content" THEN "jq" ELSE "count"]}
    /\ UNCHANGED <<paneVars, stream, mixed, filterState, errored>>
    /\ UNCHANGED <<uiVars, coordPc, cmds, edits, fileLen, failures>>

\* sendInitialContent / sendInitialGroups of that revision: countLines,
\* join and start of head | jq.  The count can fail; the content pipe is
\* built with exec.CommandContext, so its start fails on a done ctx and the
\* error is sent; the groups pipe is built with exec.Command.
sendInitialPerStart(t) ==
    /\ uiPc # "quit"
    /\ t.pc = "count"
    /\ \/ /\ failures < MaxFail
          /\ failures' = failures + 1
          /\ tasks' = Step(t, [t EXCEPT !.pc = "err"])
       \/ /\ UNCHANGED failures
          /\ tasks' = IF t.kind = "content" /\ t.cancelled
                      THEN Step(t, [t EXCEPT !.pc = "err"])
                      ELSE Step(t, [t EXCEPT !.pc = "read", !.n = fileLen])
    /\ UNCHANGED <<paneVars, stream, mixed, filterState, errored>>
    /\ UNCHANGED <<uiVars, coordPc, cmds, senders, edits, fileLen>>

\* io.ReadAll of the replay pipe in that revision, up to the Send of the
\* Started event; the ctx is not looked at.  When the ctx of a content
\* pipe is cancelled meanwhile its children are killed and ReadAll returns
\* what they had written, any number of the lines.
readAllPerStart(t) ==
    /\ uiPc # "quit"
    /\ t.pc = "read"
    /\ IF t.kind = "content"
       THEN \E k \in (IF t.cancelled
                      THEN 0..Len(ReplayContent(QueryOf(t), fileLen))
                      ELSE {Len(ReplayContent(QueryOf(t), fileLen))}) :
                tasks' = Step(t, [t EXCEPT
                    !.pc = "start",
                    !.burst = IF k = 0
                              THEN <<EmptyLine>>
                              ELSE SubSeq(ReplayContent(QueryOf(t), fileLen), 1, k)])
       ELSE tasks' = Step(t, [t EXCEPT !.pc = "start",
                                       !.gburst = InitialGroups(QueryOf(t), fileLen)])
    /\ UNCHANGED <<paneVars, stream, mixed, filterState, errored>>
    /\ UNCHANGED <<uiVars, coordPc, cmds, senders, edits, fileLen, failures>>

\* streamNewContent / streamNewGroups of that revision: when the ctx was
\* done before the Started event was delivered, the start of tail | jq
\* fails, the error is sent and the function goes on to a scanner that
\* never returns; otherwise the loop is that of the other revision.
streamNewPerStart(t) ==
    IF t.cancelled /\ t.late
    THEN /\ uiPc # "quit"
         /\ t.pc = "tail"
         /\ tasks' = Step(t, [t EXCEPT !.pc = "err"])
         /\ UNCHANGED <<paneVars, stream, mixed, filterState, errored>>
         /\ UNCHANGED <<uiVars, coordPc, cmds, senders, edits, fileLen, failures>>
    ELSE IF t.kind = "content" THEN streamNewContent(t) ELSE streamNewGroups(t)

\* That revision under the keys that type into the selector and the format
\* box.  The Stop command is left out.
PerStartNext ==
    \/ KeyTab
    \/ KeySelectorType
    \/ KeyFormatType
    \/ \E cmd \in BagToSet(cmds) : reloadContent(cmd)
    \/ \E cmd \in BagToSet(cmds) : reloadGroups(cmd)
    \/ handleCommandChannel
    \/ \E cmd \in BagToSet(senders) : RunPerStart(cmd)
    \/ \E t \in tasks : JQCommand(t)
    \/ \E t \in tasks : sendInitialPerStart(t)
    \/ \E t \in tasks : readAllPerStart(t)
    \/ \E t \in tasks : ContentStart(t)
    \/ \E t \in tasks : GroupsStart(t)
    \/ \E t \in tasks : ContentError(t)
    \/ \E t \in tasks : GroupsError(t)
    \/ \E t \in tasks : streamNewPerStart(t)
    \/ \E t \in tasks : ContentLine(t)
    \/ \E t \in tasks : GroupsLine(t)
    \/ AppendRecord

PerStartSpec ==
    Init /\ [][PerStartNext]_vars

\* ------------------------------------------------------ the group pane
\* len(name) of the names that can occur
NameLen(name) ==
    CASE name = "" -> 0
      [] name = "  \"a\": " -> 7
      [] name = "  \"b\": 1" -> 8
      [] name = "*" -> 1
      [] name = "[" -> 1
      [] name = "error" -> 5
      [] name = "info" -> 4
      [] name = "jq: error" -> 9
      [] name = "{" -> 1
      [] name = "}" -> 1

\* getGroupWidth: the longest name, at least 10 and at most 100, plus 3
getGroupWidth(items) ==
    LET longest == CHOOSE n \in {NameLen(i) : i \in items} \cup {0} :
                       \A i \in items : NameLen(i) <= n
    IN  (IF longest < 10 THEN 10 ELSE IF longest > 100 THEN 100 ELSE longest) + 3

\* updateGroupWidth for the group set the handler has just written: when
\* the width of the list changes, the viewport gets the width of the
\* unzoomed layout and the cache is reformatted.
updateGroupWidth(newGroups) ==
    IF groupsWidth # getGroupWidth(newGroups)
    THEN /\ groupsWidth' = getGroupWidth(newGroups)
         /\ updateOutputModelContent(wrap, lineNumbers, rawOutputContent,
                [outputModel EXCEPT !.Width = width - getGroupWidth(newGroups) - 4])
    ELSE UNCHANGED <<groupsWidth, outputContent, outputModel, panicked, uiPc>>

\* program.Send(GroupsStart) received; handleProcessorGroupsStart with the
\* panes: the group set is replaced, the list refilled and resized, and
\* reloadContent returned.
handleProcessorGroupsStart(t) ==
    /\ uiPc = "run"
    /\ t.pc = "start"
    /\ t.kind = "groups"
    /\ groups' = {"*"} \cup Range(t.gburst)
    /\ groupItems' = getGroupItems(groups')
    /\ cursor' = 0
    /\ updateGroupWidth(groups')
    /\ cmds' = IF panicked'
               THEN cmds
               ELSE BagAdd(cmds, Pending("content", "start", selectorValue,
                                         SelectedItemText(groupItems', 0), formatValue))
    /\ tasks' = Step(t, [Handled(t) EXCEPT !.pc = "tail",
                                           !.n = 0,
                                           !.pos = t.n + 1,
                                           !.gburst = <<>>])
    /\ UNCHANGED <<selectorValue, formatValue, selectedWindow, jq, processorCmdChan,
                   contentStopped, groupsStopped, quitIssued, rawOutputContent,
                   zoomed, wrap, lineNumbers, width, height, atBottom>>
    /\ UNCHANGED <<coordPc, senders, edits, fileLen, failures, stream, mixed, filterState, errored>>

\* program.Send(GroupsError) received; handleProcessorGroupError with the
\* panes: the group set and the list are reset, the viewport shows the
\* error text; updateGroupWidth is not called.
handleProcessorGroupError(t) ==
    /\ uiPc = "run"
    /\ t.pc = "err"
    /\ t.kind = "groups"
    /\ jq' = QueryOf(t)
    /\ groups' = {"*"}
    /\ groupItems' = getGroupItems(groups')
    /\ outputModel' = SetContent(outputModel, ErrorText)
    /\ errored' = errored \cup {"groups"}
    /\ tasks' = Return(t)
    /\ UNCHANGED <<selectorValue, formatValue, cursor, selectedWindow,
                   processorCmdChan, contentStopped, groupsStopped, uiPc,
                   quitIssued, rawOutputContent, outputContent, groupsWidth, zoomed,
                   wrap, lineNumbers, width, height, atBottom, panicked>>
    /\ UNCHANGED <<coordPc, cmds, senders, edits, fileLen, failures, stream, mixed, filterState>>

\* program.Send(GroupsLine) received; handleProcessorGroupLine with the
\* panes: the name is added, the list refilled and resized.
handleProcessorGroupLine(t) ==
    /\ uiPc = "run"
    /\ t.pc = "line"
    /\ t.kind = "groups"
    /\ groups' = groups \cup {t.gline}
    /\ groupItems' = getGroupItems(groups')
    /\ updateGroupWidth(groups')
    /\ tasks' = IF t.gline = "jq: error"
                THEN Return(t)
                ELSE Step(t, [Handled(t) EXCEPT !.pc = "tail", !.gline = ""])
    /\ UNCHANGED <<selectorValue, formatValue, cursor, selectedWindow, jq,
                   processorCmdChan, contentStopped, groupsStopped, quitIssued,
                   rawOutputContent, zoomed, wrap, lineNumbers, width, height,
                   atBottom>>
    /\ UNCHANGED <<coordPc, cmds, senders, edits, fileLen, failures, stream, mixed, filterState, errored>>

\* Both pipelines under the panes: the selector is typed, the focus moved,
\* the output pane zoomed and the terminal resized while the events of the
\* groups and the content pipeline arrive.
GroupPaneNext ==
    \/ KeyTab
    \/ KeyShiftTab
    \/ KeySelectorType
    \/ KeyZoom
    \/ KeyEscZoomed
    \/ \E w \in Widths, h \in Heights : handleWindowSize(w, h)
    \/ handleCommandChannel
    \/ \E cmd \in BagToSet(cmds) : reloadContentLoading(cmd)
    \/ \E cmd \in BagToSet(cmds) : reloadGroups(cmd)
    \/ \E cmd \in BagToSet(senders) : RunStartContent(cmd)
    \/ \E cmd \in BagToSet(senders) : RunStartGroups(cmd)
    \/ ContentWorkerReceive
    \/ GroupsWorkerReceive
    \/ \E t \in tasks : JQCommand(t)
    \/ \E t \in tasks : countLines(t)
    \/ \E t \in tasks : readInitial(t)
    \/ \E t \in tasks : handleProcessorContentStart(t)
    \/ \E t \in tasks : handleProcessorContentError(t)
    \/ \E t \in tasks : handleProcessorContentLine(t)
    \/ \E t \in tasks : handleProcessorGroupsStart(t)
    \/ \E t \in tasks : handleProcessorGroupError(t)
    \/ \E t \in tasks : handleProcessorGroupLine(t)
    \/ \E t \in tasks : streamNewContent(t)
    \/ \E t \in tasks : streamNewGroups(t)
    \/ AppendRecord

GroupPaneSpec ==
    Init /\ [][GroupPaneNext]_vars

\* ------------------------------------------------- the child processes
\* One call of streamContent or streamGroups, statement by statement.
\* stream.head, .jq, .tail, .tailJq are the processes of headCmd and jqCmd
\* of sendInitial* and of tailCmd and jqCmd of streamNew*: "unstarted",
\* "running", "exited" (ended by itself) or "killed".  stream.attempted
\* holds the children Process.Kill was called on, stream.done says that
\* args.ctx is cancelled, stream.sent holds the events sent to the program,
\* in order.
Children ==
    {"head", "jq", "tail", "tailJq"}

otherVars ==
    <<selectorValue, formatValue, groups, groupItems, cursor, selectedWindow, jq,
      processorCmdChan, contentStopped, groupsStopped, uiPc, quitIssued, coordPc,
      cmds, senders, tasks, edits, fileLen, failures, paneVars, mixed,
      filterState, errored>>

\* the position changes, and an event, when one is sent, is received by
\* the program after those sent before
Goto(s, pc, event) ==
    [s EXCEPT !.pc = pc, !.sent = IF event = "none" THEN @ ELSE Append(@, event)]

\* the name of an event of this kind of pipeline
Event(s, name) ==
    (IF s.kind = "content" THEN "Content" ELSE "Groups") \o name

\* cmd.Process.Kill on child c: a running process is killed, a process
\* that has ended and was not waited for takes the signal without effect.
KillOne(s, c) ==
    [s EXCEPT ![c] = IF @ = "running" THEN "killed" ELSE @,
              !.attempted = @ \cup {c}]

\* kill(first, second): the loop returns at the first Kill that fails.
\* failAt is the child whose Kill fails (1 or 2), 0 when none does.
kill(s, first, second, failAt) ==
    IF failAt = 1 THEN [s EXCEPT !.attempted = @ \cup {first}]
    ELSE IF failAt = 2 THEN [KillOne(s, first) EXCEPT !.attempted = @ \cup {second}]
    ELSE KillOne(KillOne(s, first), second)

\* streamContent / streamGroups is entered by its worker.
streamEnter(kind) ==
    /\ stream.pc = "idle"
    /\ stream' = [stream EXCEPT !.kind = kind,
                                !.pc = IF kind = "content" THEN "jq" ELSE "count"]
    /\ UNCHANGED otherVars

\* sendInitialContent: program.Send(JQCommand{...}).
sendJQCommand ==
    /\ stream.pc = "jq"
    /\ stream' = Goto(stream, "count", "JQCommand")
    /\ UNCHANGED otherVars

\* sendInitial*: countLines succeeds, or fails and the error is sent.
countLinesOfFile(ok) ==
    /\ stream.pc = "count"
    /\ stream' = IF ok THEN Goto(stream, "join", "none")
                 ELSE Goto(stream, "returned", Event(stream, "Error"))
    /\ UNCHANGED otherVars

\* sendInitial* and streamNew*: join; a pipe that cannot be made is sent as
\* an error and the function returns.  streamNew* is entered even when
\* sendInitial* returned because the context was done.
join(ok) ==
    /\ stream.pc \in {"join", "joinLive"}
    /\ stream' = IF ~ok THEN Goto(stream, "returned", Event(stream, "Error"))
                 ELSE IF stream.pc = "join" THEN Goto(stream, "startHead", "none")
                 ELSE Goto(stream, "startTail", "none")
    /\ UNCHANGED otherVars

\* the next statement after child c has been started
AfterStart(c) ==
    CASE c = "head" -> "startJq"
      [] c = "jq" -> "read"
      [] c = "tail" -> "startTailJq"
      [] OTHER -> "scan"

\* where start is about to call cmd.Start on child c
StartingAt(c) ==
    CASE c = "head" -> "startHead"
      [] c = "jq" -> "startJq"
      [] c = "tail" -> "startTail"
      [] OTHER -> "startTailJq"

\* (variant) after a failed Start the error is sent and the caller goes on
startGoesOn(c, ok) ==
    /\ stream.pc = StartingAt(c)
    /\ stream' = IF stream.done THEN Goto(stream, "returned", "none")
                 ELSE IF ~ok THEN Goto(stream, AfterStart(c), Event(stream, "Error"))
                 ELSE [Goto(stream, AfterStart(c), "none") EXCEPT ![c] = "running"]
    /\ UNCHANGED otherVars

\* start: cmd.Start of child c.  On a cancelled context Start returns
\* context.Canceled, which is not sent; any other failure is sent; in both
\* cases start returns at once and so does the caller.
start(c, ok) ==
    /\ stream.pc = StartingAt(c)
    /\ stream' = IF stream.done THEN Goto(stream, "returned", "none")
                 ELSE IF ~ok THEN Goto(stream, "returned", Event(stream, "Error"))
                 ELSE [Goto(stream, AfterStart(c), "none") EXCEPT ![c] = "running"]
    /\ UNCHANGED otherVars

\* sendInitial*: io.ReadAll returns at the end of jq's output, which is
\* when jq has ended, or with a read error; the error is sent and the
\* function returns.
readAll(ok) ==
    /\ stream.pc = "read"
    /\ ok => stream.jq \in {"exited", "killed"}
    /\ stream' = IF ok THEN Goto(stream, "kill", "none")
                 ELSE Goto(stream, "returned", Event(stream, "Error"))
    /\ UNCHANGED otherVars

\* sendInitial*: kill(headCmd, jqCmd); a failure is sent and the function
\* returns.
killInitial(failAt) ==
    /\ stream.pc = "kill"
    /\ stream' = IF failAt = 0
                 THEN Goto(kill(stream, "head", "jq", 0), "ctx", "none")
                 ELSE Goto(kill(stream, "head", "jq", failAt), "returned",
                           Event(stream, "Error"))
    /\ UNCHANGED otherVars

\* sendInitial*: select on args.ctx.Done(); when done nothing is sent and
\* the function returns 0, nil, else the Started event is sent.  In both
\* cases the caller goes on with streamNew*.
sendStart ==
    /\ stream.pc = "ctx"
    /\ stream' = IF stream.done THEN Goto(stream, "joinLive", "none")
                 ELSE Goto(stream, "joinLive", Event(stream, "Start"))
    /\ UNCHANGED otherVars

\* streamNew*: scanner.Scan returns a line of the live jq; on a done
\* context the children are killed and the function returns; a groups line
\* that is empty or starts an object or an array cancels the context,
\* kills and returns; any other line is sent.  A failed kill is sent.
scanLine(fragment, failAt) ==
    /\ stream.pc = "scan"
    /\ stream.tailJq = "running"
    /\ stream.lines < MaxLines
    /\ fragment => stream.kind = "groups"
    /\ stream' =
           IF stream.done \/ fragment
           THEN [Goto(kill(stream, "tail", "tailJq", failAt), "returned",
                      IF failAt = 0 THEN "none" ELSE Event(stream, "Error"))
                 EXCEPT !.done = TRUE, !.lines = @ + 1]
           ELSE [Goto(stream, "scan", Event(stream, "Line")) EXCEPT !.lines = @ + 1]
    /\ stream.done \/ fragment \/ failAt = 0
    /\ UNCHANGED otherVars

\* streamNew*: scanner.Scan returns false, at the end of the live jq's
\* output: the loop ends and the function returns.
scanEnd ==
    /\ stream.pc = "scan"
    /\ stream.tailJq \in {"exited", "killed"}
    /\ stream' = Goto(stream, "returned", "none")
    /\ UNCHANGED otherVars

\* The worker, or the task itself, calls cancel: args.ctx is done.
cancel ==
    /\ stream.pc # "idle"
    /\ ~stream.done
    /\ stream' = [stream EXCEPT !.done = TRUE]
    /\ UNCHANGED otherVars

\* exec.CommandContext: the goroutine Start left watching the context of a
\* started child kills the child once the context is done.
watchCtx(c) ==
    /\ stream.done
    /\ stream[c] = "running"
    /\ stream' = KillOne(stream, c)
    /\ UNCHANGED otherVars

\* A child ends by itself: head after its last line, jq at the end of its
\* input or on an error in its query or its input.  tail -f does not end.
childExits(c) ==
    /\ c # "tail"
    /\ stream[c] = "running"
    /\ stream' = [stream EXCEPT ![c] = "exited"]
    /\ UNCHANGED otherVars

\* One pipeline task from its start, with the program idle around it.
StreamInit ==
    /\ NewModel(<<".">>, FALSE, FALSE)
    /\ Started(1, FALSE)
    /\ stream = IdleStream

StreamNext ==
    \/ \E kind \in {"content", "groups"} : streamEnter(kind)
    \/ sendJQCommand
    \/ \E ok \in BOOLEAN : countLinesOfFile(ok)
    \/ \E ok \in BOOLEAN : join(ok)
    \/ \E c \in Children, ok \in BOOLEAN : start(c, ok)
    \/ \E ok \in BOOLEAN : readAll(ok)
    \/ \E failAt \in 0..2 : killInitial(failAt)
    \/ sendStart
    \/ \E fragment \in BOOLEAN, failAt \in 0..2 : scanLine(fragment, failAt)
    \/ scanEnd
    \/ cancel
    \/ \E c \in Children : watchCtx(c)
    \/ \E c \in Children : childExits(c)

StreamSpec ==
    StreamInit /\ [][StreamNext]_vars


\* ------------------------------- the column-bounding revision of the runner
\* streamContent of src/unnamed/part_002 pipes jq's output through sed,
\* which wraps or cuts each line.  A line is its length in columns here;
\* stream holds the Command's Width, Wrap and LineNumber, the repetition
\* count and the ellipsis streamContent puts into the sed script, and the
\* lengths of the lines sed prints for one input line.
\* Command.Width of the Start commands
RequestedWidths ==
    {20, 255, 256, 262, 263, 300}

\* lengths of the lines jq prints
LineLengths ==
    {0, 5, 13, 252, 253, 255, 256, 300, 510, 600}

\* calculateWidth
calculateWidth(requested, numbered) ==
    IF numbered THEN requested - 7 ELSE requested

\* if width > 255 { width = 252; ellipsis = "..." }: the count and the
\* length of the ellipsis in the script
sedCount(requested, numbered) ==
    IF calculateWidth(requested, numbered) > 255
    THEN 252
    ELSE calculateWidth(requested, numbered)

sedEllipsis(requested, numbered) ==
    IF calculateWidth(requested, numbered) > 255 THEN 3 ELSE 0

RECURSIVE sedWrap(_, _)
\* sed s/.\{count\}/&\n/g on a line of len columns: a line feed after
\* every count columns
sedWrap(count, len) ==
    IF len < count THEN <<len>> ELSE <<count>> \o sedWrap(count, len - count)

\* sed s/^\(.\{count\}\).*/\1.../ on a line of len columns: a line of at
\* least count columns becomes its first count columns and the ellipsis
sedCut(count, ellipsis, len) ==
    IF len >= count THEN <<count + ellipsis>> ELSE <<len>>

\* streamContent is entered for a Start command.
FilterInit ==
    /\ NewModel(<<".">>, FALSE, FALSE)
    /\ Started(1, FALSE)
    /\ \E requested \in RequestedWidths, wrapped, numbered \in BOOLEAN :
           stream = [pc |-> "entered", Width |-> requested, Wrap |-> wrapped,
                     LineNumber |-> numbered, count |-> 0, ellipsis |-> 0,
                     len |-> 0, out |-> <<>>]

\* streamContent up to the start of tail | jq | sed
startFilter ==
    /\ stream.pc = "entered"
    /\ stream' = [stream EXCEPT
                     !.pc = "scan",
                     !.count = sedCount(stream.Width, stream.LineNumber),
                     !.ellipsis = sedEllipsis(stream.Width, stream.LineNumber)]
    /\ UNCHANGED otherVars

\* jq prints a line of len columns and sed prints what it makes of it
filterLine(len) ==
    /\ stream.pc = "scan"
    /\ stream' = [stream EXCEPT
                     !.pc = "sent",
                     !.len = len,
                     !.out = IF stream.Wrap
                             THEN sedWrap(stream.count, len)
                             ELSE sedCut(stream.count, stream.ellipsis, len)]
    /\ UNCHANGED otherVars

FilterNext ==
    \/ startFilter
    \/ \E len \in LineLengths : filterLine(len)

FilterSpec ==
    FilterInit /\ [][FilterNext]_vars

\* ------------------------------------------------------------ properties
\* C1 - at every moment at most one content task and at most one groups
\* task is executing (between entering stream* and returning from it).
AtMostOneExecutingPerKind ==
    \A a, b \in tasks : (a.kind = b.kind /\ Executing(a) /\ Executing(b)) => a = b

\* A Start arrives while the previous task of its kind is executing: Run is
\* blocked handing the new task to the worker.
StartWaitsForExecutingTask ==
    \E a, b \in tasks : a.kind = b.kind /\ Executing(a) /\ a.cancelled /\ b.pc = "queued"

\* C2 - a pipeline cancelled before its replay burst was delivered has no
\* event handled by the UI afterwards (no command-line notice, no Started
\* event, no line, no error).
CancelledBeforeBurstIsSilent ==
    \A t \in tasks : ~t.late

\* C3 - no record is delivered twice by one content pipeline: a record of
\* the replay burst is not delivered again as a ContentLine.
NoRecordDeliveredTwice ==
    \A t \in tasks : \A i, j \in DOMAIN t.delivered :
        i # j => t.delivered[i] # t.delivered[j]

\* C4 - within one content pipeline nothing is skipped and file order is
\* kept: what was delivered so far is an initial part of the outputs of
\* the file's records under the pipeline's query, in the order of the file.
DeliveredInFileOrder ==
    \A t \in tasks :
        (t.kind = "content" /\ t.delivered # <<>>) =>
            /\ Len(t.delivered) <= Len(JqContentOutput(QueryOf(t), 1, fileLen))
            /\ t.delivered = SubSeq(JqContentOutput(QueryOf(t), 1, fileLen),
                                    1, Len(t.delivered))

\* The UI has handled the first event of task t.
Heard(t) ==
    IF t.kind = "content"
    THEN t.pc \in {"count", "err", "read", "start", "tail", "line"}
    ELSE t.pc \in {"tail", "line"}

\* The group names the pipeline of task t can have contributed so far.
Contributes(t) ==
    {name \in Range(ReplayGroups(QueryOf(t), fileLen)) : ~LooksLikeJson(name)}

\* C5 - once the UI has handled the first event of the pipeline that
\* superseded another, no Started, line or error event of the superseded
\* pipeline is left to be handled, and after the new GroupsStart every
\* group of the group set comes from the new groups pipeline.
NoStaleEventAfterNewPipeline ==
    /\ \A a, b \in tasks :
           (a.kind = b.kind /\ ~a.cur /\ b.cur /\ Heard(b)) => ~Sending(a)
    /\ \A b \in tasks :
           (b.kind = "groups" /\ b.cur /\ Heard(b)) => groups \subseteq {"*"} \cup Contributes(b)

\* A groups pipeline is superseded mid-stream: a group line of it is still
\* to be handled while the new groups task waits for the worker.
StaleGroupLinePending ==
    \E a, b \in tasks :
        /\ a.kind = "groups" /\ ~a.cur /\ a.pc = "line"
        /\ b.kind = "groups" /\ b.cur /\ b.pc = "queued"

\* C6 - Quit is issued only once both ContentStopped and GroupsStopped
\* have been handled, and then exactly once.
QuitOnceAfterBothStopped ==
    quitIssued = IF contentStopped /\ groupsStopped THEN 1 ELSE 0

\* Stop arrived before the content pipeline announced itself, and Quit
\* was issued.
QuitWithoutAnyPipeline ==
    quitIssued = 1 /\ jq = <<>> /\ groups = {"*"}

\* The event loop is blocked in stopProcessor and no goroutine is left
\* that will receive the Stop command: Run has returned, or Run waits for
\* a worker whose task waits for the event loop.
ShutdownBlocked ==
    /\ uiPc = "stop"
    /\ \/ coordPc = "done"
       \/ /\ coordPc = "sendContent"
          /\ \E t \in tasks : t.kind = "content" /\ t.pc \in {"jq", "err", "start", "line"}
       \/ /\ coordPc = "sendGroups"
          /\ \E t \in tasks : t.kind = "groups" /\ t.pc \in {"err", "start", "line"}

\* C7 - once escape has initiated shutdown the application terminates:
\* the event loop never waits in stopProcessor for a receive that cannot
\* come.
EscapeTerminates ==
    ~ShutdownBlocked

\* C8 - the StartGroups command of a selector edit carries the selector
\* the edit produced (while Run is listening for commands).
StartGroupsCarriesEditedSelector ==
    [][\A cmd \in BagToSet(cmds) :
          (processorCmdChan /\ coordPc # "done" /\ reloadGroups(cmd))
              => senders' = BagAdd(senders, Command("groups", cmd.sel, "*", <<>>))]_vars

\* C9 - the StartContent command of a format edit carries the new format
\* with the selector and the selected group of the moment of the edit, and
\* the edit leaves the group set and the selection alone.
StartContentCarriesEditedFormat ==
    [][/\ \A cmd \in BagToSet(cmds) :
             (processorCmdChan /\ coordPc # "done" /\ cmd.by = "format"
                 /\ reloadContent(cmd))
                 => senders' = BagAdd(senders, Command("content", cmd.sel, cmd.grp, cmd.fmt))
       /\ (KeyFormatType \/ KeyFormatBackspace)
             => UNCHANGED <<groups, groupItems, cursor, tasks, senders>>]_vars

\* C10 - whenever the selected group changes, a StartContent for the newly
\* selected group (the sentinel when nothing is selected) is issued.
SelectionChangeRestartsContent ==
    [][SelectedItem(groupItems', cursor') # SelectedItem(groupItems, cursor)
          => \E by \in {"groups", "start"} :
                 cmds' = BagAdd(cmds, Pending("content", by, selectorValue',
                                              SelectedItemText(groupItems', cursor'),
                                              formatValue'))]_vars

\* C11 - when the UI handles a content Started event, the raw cache becomes
\* exactly the lines the filter printed for the records the file held (none
\* when it printed nothing) and the formatted cache becomes the formatting
\* of those lines under the current width, wrap and line-number settings.
ContentStartReplacesCaches ==
    [][\A t \in tasks :
          handleProcessorContentStart(t)
              => /\ \E len \in 0..fileLen :
                        rawOutputContent' = ReplayContent(QueryOf(t), len)
                 /\ outputContent' = FormatFrom(wrap, lineNumbers, outputModel'.Width,
                                                rawOutputContent', 1)]_vars

\* C12 - while the view is pinned to the bottom, handling a content-line
\* event grows the raw cache and the formatted cache by exactly one entry
\* each, leaves the pin flag true and leaves the viewport at the new bottom
\* (so N events grow both by N).
ContentLineAppendsPinned ==
    [][\A t \in tasks :
          (atBottom /\ handleProcessorContentLine(t))
              => /\ Len(rawOutputContent') = Len(rawOutputContent) + 1
                 /\ Len(outputContent') = Len(outputContent) + 1
                 /\ atBottom'
                 /\ outputModel'.YOffset = maxYOffset(outputModel')]_vars

\* A record appended while the pipeline runs has been handled as a content
\* line with the pin set: both caches hold the replayed record and the new
\* one, and the viewport has moved down to show the new line.
PinnedLineAppended ==
    /\ atBottom
    /\ Len(rawOutputContent) = 2
    /\ Len(outputContent) = 2
    /\ outputModel.YOffset > 0
    /\ \E t \in tasks : t.kind = "content" /\ t.pc = "tail" /\ Len(t.delivered) = 2

\* The pin flag agrees with the viewport: it is set exactly when the
\* offset is at its maximum for the content and the pane height.
PinAgrees(pin, vp) ==
    pin <=> vp.YOffset >= maxYOffset(vp)

\* C13 - after every key or event that Update handles, the pinned-to-bottom
\* flag is true exactly when the viewport's offset is at its maximum: a
\* handler that starts with flag and viewport in agreement leaves them in
\* agreement.
PinFlagTracksBottom ==
    [][(/\ PinAgrees(atBottom, outputModel)
        /\ uiPc' = "run"
        /\ ~\E cmd \in BagToSet(cmds) : reloadContentLoading(cmd))
           => PinAgrees(atBottom', outputModel')]_vars

\* C14 - toggling wrap or line numbers changes only the flag, the formatted
\* cache and the viewport: the raw cache and every other field of the
\* Model are unchanged and nothing is sent to the coordinator.
ToggleLeavesRawAndPipelines ==
    [][/\ (KeyWrap \/ KeyLineNumbers)
             => UNCHANGED <<rawOutputContent, cmds, senders, tasks, coordPc,
                            selectorValue, formatValue, groups, groupItems, cursor,
                            selectedWindow, jq, processorCmdChan, groupsWidth, zoomed,
                            width, height, atBottom>>
       /\ KeyWrap => UNCHANGED lineNumbers
       /\ KeyLineNumbers => UNCHANGED wrap]_vars

\* Both toggles were pressed while the content pipeline streams: the
\* replayed record is shown numbered and wrapped, and the pipeline that
\* delivered it is still the running one.
ToggledWhilePipelineRuns ==
    /\ wrap
    /\ lineNumbers
    /\ rawOutputContent = <<1>>
    /\ outputModel.Width = 8
    /\ outputContent = <<<<" ", " ", " ", " ", "1", ":", " ", "r", "\n", "1">>>>
    /\ \E t \in tasks : t.kind = "content" /\ t.cur /\ t.pc = "tail"
    /\ cmds = EmptyBag
    /\ senders = EmptyBag

\* The formatted cache and the lines of the viewport after a toggle of wrap
\* and a second one, from the current state; likewise for line numbers.
TwiceWrap ==
    Reformat(wrap, lineNumbers, rawOutputContent,
             Reformat(~wrap, lineNumbers, rawOutputContent, outputModel, atBottom).view,
             atBottom)

TwiceLineNumbers ==
    Reformat(wrap, lineNumbers, rawOutputContent,
             Reformat(wrap, ~lineNumbers, rawOutputContent, outputModel, atBottom).view,
             atBottom)

\* C15 - in every reachable state where the toggles are handled (output
\* pane focused, neither toggle panics), toggling wrap twice or line
\* numbers twice gives back the formatted cache and the displayed text.
DoubleToggleRestores ==
    (/\ uiPc = "run"
     /\ selectedWindow = outputWindow
     /\ outputModel.Width >= 0)
        => /\ TwiceWrap.content = outputContent
           /\ Join(TwiceWrap.view.lines) = Join(outputModel.lines)
           /\ TwiceLineNumbers.content = outputContent
           /\ Join(TwiceLineNumbers.view.lines) = Join(outputModel.lines)

\* The line of the raw cache at index idx as the claim has it formatted
\* with wrap off: numbered when line numbers are on, cut to the width.
CutLine(numbered, idx, w, line) ==
    LET text == IF numbered THEN PadLeft(Decimal(idx), 5) \o <<":", " ">> \o line ELSE line
    IN  [k \in 1..min(Len(text), w) |-> text[k]]

\* C16 - a window resize handled while wrap is off replaces every formatted
\* line by the raw line (numbered when line numbers are on) cut to the new
\* width of the output pane, leaves the raw cache unchanged and sends
\* nothing to the coordinator.
ResizeRecutsEveryLine ==
    [][\A w \in Widths, h \in Heights :
          (~wrap /\ handleWindowSize(w, h))
              => /\ UNCHANGED <<rawOutputContent, cmds, senders, tasks, coordPc>>
                 /\ Len(outputContent') = Len(rawOutputContent)
                 /\ \A i \in DOMAIN rawOutputContent :
                        outputContent'[i] = CutLine(lineNumbers, i, outputModel'.Width,
                                                    LineText(rawOutputContent[i]))]_vars

\* jq exits with a diagnostic under the query of task t.
JqFails(t) ==
    IF t.kind = "content"
    THEN ~JqCompiles(QueryOf(t)[2])
    ELSE ~GroupsQueryCompiles(QueryOf(t))

\* C17 - a pipeline whose jq fails at run time reports it by an Error
\* event: it has no Started event and no line event for the UI, neither
\* pending nor handled.
RuntimeFailureIsErrorEvent ==
    \A t \in tasks : JqFails(t) => t.pc \notin {"start", "tail", "line"}

\* The groups pipeline of task t reads a live line that is empty or begins
\* with '{' or '[', cancels itself and returns.
SelfCancels(t) ==
    /\ streamNewGroups(t)
    /\ ~t.cancelled
    /\ tasks' = Return(t)

\* C19 - when the groups pipeline cancels itself on a line that is empty or
\* begins with '{' or '[', it delivers no further group and the UI's group
\* list is then only the sentinel, also when the pipeline had delivered
\* valid groups before.
SelfCancelLeavesOnlySentinel ==
    [][\A t \in tasks :
          SelfCancels(t) => (groups' = {"*"} /\ groupItems' = <<"*">>)]_vars

\* Nothing is left to run but the user and the file: Update has no event
\* to handle, no tea.Cmd and no command is pending, Run waits for a
\* command, and every pipeline has read the file to its end.
Settled ==
    /\ uiPc = "run"
    /\ coordPc = "loop"
    /\ cmds = EmptyBag
    /\ senders = EmptyBag
    /\ \A t \in tasks :
           /\ t.pc = "tail"
           /\ ~t.cancelled
           /\ IF t.kind = "content"
              THEN JqCompiles(QueryOf(t)[2]) /\ Selected(QueryOf(t), t.pos, fileLen) = {}
              ELSE GroupsQueryCompiles(QueryOf(t)) /\ t.pos > fileLen

\* The values under a of the records of the file are all strings.
ScalarFile ==
    \A i \in 1..fileLen : ~ObjectValued(i)

\* C20 - with the selector .a, given at start-up or typed, over a file
\* whose values under a are strings: once everything has settled the group
\* list is the sentinel and the distinct values of the file, sorted (after
\* an append: once the appended record has been read, too).
GroupListShowsValuesOfFile ==
    (Settled /\ ScalarFile /\ selectorValue = <<".", "a">>)
        => groupItems = getGroupItems({"*"} \cup {Level(i) : i \in 1..fileLen})

\* C18 - when a pipeline task has returned, on whichever path, every
\* child process it started has ended or has had Process.Kill called on it
\* (by kill, or by the watcher of a cancelled context, which is then still
\* to run): none is left running.
NoChildLeftRunning ==
    stream.pc = "returned" =>
        \A c \in Children :
            stream[c] = "running" => (c \in stream.attempted \/ stream.done)

\* the text the identity stands in for
OrIdentity(text) ==
    IF text = <<>> THEN <<".">> ELSE text

\* C21 - the query of every content pipeline is determined by its
\* selector S, group G and format F alone, an empty S or F standing for
\* the identity '.': '.|select(S)|F' for the sentinel group and
\* '.|select(S=="G")|F' for every other group.
ContentQueryIsBuiltFromTriple ==
    \A t \in tasks :
        t.kind = "content" =>
            /\ \A u \in tasks :
                   (u.kind = "content" /\ u.sel = t.sel /\ u.grp = t.grp /\ u.fmt = t.fmt)
                       => QueryText(QueryOf(u)) = QueryText(QueryOf(t))
            /\ QueryText(QueryOf(t)) =
                   IF t.grp = "*"
                   THEN <<".|select(">> \o OrIdentity(t.sel) \o <<")|">> \o OrIdentity(t.fmt)
                   ELSE <<".|select(">> \o OrIdentity(t.sel) \o <<"==\"", t.grp, "\")|">>
                        \o OrIdentity(t.fmt)

\* A content pipeline for a named group runs with an empty format.
QueryWithDefaultBuilt ==
    \E t \in tasks :
        t.kind = "content" /\ t.grp # "*" /\ t.fmt = <<>> /\ t.pc = "tail"

\* C22 - esc while the group list is filtering only leaves the filter:
\* Update does not enter stopProcessor; esc in every other state, whichever
\* pane is focused and zoomed or not, takes Update into stopProcessor's
\* send of the Stop command.
EscLeavesFilterElseStops ==
    [][/\ KeyEscFiltering => (filterState' = "unfiltered" /\ uiPc' = "run")
       /\ (KeyEsc \/ KeyEscZoomed) => uiPc' \in {"stop", "nil"}]_vars

\* Update is inside stopProcessor's send and waits for Run, Run is inside
\* its send to the worker of a kind and waits for the worker, and the
\* worker is inside a task of that kind whose program.Send waits for Update.
WaitCycle ==
    /\ uiPc = "stop"
    /\ \E t \in tasks :
           /\ t.pc \in {"jq", "err", "start", "line"}
           /\ \/ t.kind = "content" /\ coordPc = "sendContent"
              \/ t.kind = "groups" /\ coordPc = "sendGroups"

\* C23 - no call of Update waits for the coordinator or for a pipeline
\* task while they wait for it: the event loop, Run and a pipeline task
\* never wait on each other in a cycle.
NoWaitCycle ==
    ~WaitCycle

\* a step of the goroutine of a tea.Cmd, which runs outside Update
CommandStep ==
    \E cmd \in BagToSet(cmds) :
        reloadGroups(cmd) \/ reloadContent(cmd) \/ reloadContentLoading(cmd)

\* C24 - the group set, the raw cache, the formatted cache and the content
\* of the output pane are written by Update only: no step of a command
\* running outside Update changes any of them.
CommandsLeaveUiStateAlone ==
    [][CommandStep => UNCHANGED <<groups, rawOutputContent, outputContent, outputModel>>]_vars

\* C25 - once the user has stopped and every command and event has been
\* processed, the content pipeline that runs was started with the text of
\* the selector box, the selected group (the sentinel when none) and the
\* text of the format box as they are shown.
RunningContentMatchesBoxes ==
    Settled =>
        \A t \in tasks :
            (t.kind = "content" /\ t.cur) =>
                /\ t.sel = selectorValue
                /\ t.grp = SelectedItemText(groupItems, cursor)
                /\ t.fmt = formatValue

\* C26 - while the selector box holds a text of more than one character
\* that ends in '.', no Start command carrying that text is on its way to
\* the coordinator, whether StartGroups or StartContent.
IncompleteSelectorIsNotSent ==
    EndsInSeparator(selectorValue) =>
        \A cmd \in BagToSet(senders) : cmd.sel # selectorValue

\* the events of stream.sent that are Started, line and Error events
Starts ==
    {i \in DOMAIN stream.sent : stream.sent[i] \in {"ContentStart", "GroupsStart"}}

Lines ==
    {i \in DOMAIN stream.sent : stream.sent[i] \in {"ContentLine", "GroupsLine"}}

Errors ==
    {i \in DOMAIN stream.sent : stream.sent[i] \in {"ContentError", "GroupsError"}}

\* C27 - the events of one pipeline instance reach the program as at most
\* one Started event, then line events; no line event comes before the
\* Started event and neither a Started nor a line event after an Error
\* event.
EventsFollowProtocol ==
    /\ Cardinality(Starts) <= 1
    /\ \A i \in Lines : \E k \in Starts : k < i
    /\ \A i \in Errors : i = Len(stream.sent)

\* A pipeline has returned after its Started event, a line event and an
\* Error event.
StartedLineThenError ==
    /\ stream.pc = "returned"
    /\ Starts # {}
    /\ Lines # {}
    /\ Errors # {}

\* jq -r prints every record as an object under this groups query, so the
\* replay burst of a file that is not empty begins with '{'.
PrintsObjects(query) ==
    Len(query) = 1 \/ query[2] = <<".">>

\* C28 - when the replay burst of a groups pipeline begins with '{', the
\* Started event leaves the group set with the sentinel alone and the
\* pipeline is cancelled at once: it does not go on to its live tail.
ObjectReplayEndsGroupsPipeline ==
    [][\A t \in tasks :
           (GroupsStart(t) /\ PrintsObjects(QueryOf(t)) /\ fileLen > 0) =>
               /\ groups' = {"*"}
               /\ \A u \in tasks' : (u.kind = "groups" /\ u.pc = "tail") => u.cancelled]_vars

\* C29 - the group set never holds an empty name or a name that begins
\* with '{' or '[', wherever in the replay burst or in the live stream such
\* a line occurs.
GroupSetHoldsNoJsonLine ==
    \A name \in groups : ~LooksLikeJson(name)

\* the pipeline tasks of one kind
TasksOf(kind) ==
    {t \in tasks : t.kind = kind}

\* Whenever a task waits in program.Send and the event loop is running,
\* its event can be delivered, whatever Run and the other tasks are doing.
DeliveryIsNotHeldBack ==
    \A t \in tasks :
        (uiPc = "run" /\ Sending(t)) =>
            ENABLED (ContentStart(t) \/ ContentError(t) \/ ContentLine(t)
                     \/ GroupsStart(t) \/ GroupsError(t) \/ GroupsLine(t))

\* C30 - but for the Stop command, no step of the coordinator, of a worker
\* or of a pipeline changes the tasks of both kinds: a Start command, an
\* error or the end of a pipeline of one kind leaves the contexts and the
\* pipelines of the other kind as they are, and never holds back the
\* delivery of their events.
KindsAreIndependent ==
    [][/\ DeliveryIsNotHeldBack
       /\ \/ RunStop
          \/ TasksOf("content")' = TasksOf("content")
          \/ TasksOf("groups")' = TasksOf("groups")]_vars

\* Run has cancelled a content pipeline for a new one, which waits for the
\* content worker, while a groups pipeline, not cancelled, is about to
\* deliver a line.
ContentRestartedBesideGroups ==
    /\ coordPc = "sendContent"
    /\ \E old \in TasksOf("content") : old.cancelled /\ ~old.cur
    /\ \E new \in TasksOf("content") : new.cur /\ new.pc = "queued"
    /\ \E g \in TasksOf("groups") : g.pc = "line" /\ ~g.cancelled /\ g.cur


\* ---------------------------------------------------------------- C31
\* the number of commands of one kind in a bag of commands
CountOf(bag, kind) ==
    BagCardinality([c \in {x \in BagToSet(bag) : x.kind = kind} |-> bag[c]])

\* C31: once Update has handled an Error event of a kind, it returns no
\* command that sends a Start of that kind before a key changes the
\* selector, the format or the selected group; the event loop goes on and
\* the errored task has returned.
NoStartAfterError ==
    [][\A kind \in errored' :
          /\ CountOf(cmds', kind) <= CountOf(cmds, kind)
          /\ (\E t \in tasks : ContentError(t) \/ GroupsError(t)) => uiPc' = "run"]_vars

\* ---------------------------------------------------------------- C32
\* the pane after the given one in the order selector, format, groups,
\* output, selector
FocusForward(window) ==
    CASE window = selectorWindow -> formatWindow
      [] window = formatWindow -> groupsWindow
      [] window = groupsWindow -> outputWindow
      [] window = outputWindow -> selectorWindow

\* C32: outside zoom tab moves the focus selector -> format -> groups ->
\* output -> selector and shift+tab undoes it, so tab followed by shift+tab
\* and four tabs in a row restore the focused pane; while zoomed tab and
\* shift+tab go to the viewport and leave the focused pane alone.
FocusCycle ==
    [][/\ KeyTab => (~zoomed /\ selectedWindow' = FocusForward(selectedWindow))
       /\ KeyShiftTab => (~zoomed /\ FocusForward(selectedWindow') = selectedWindow)
       /\ FocusForward(FocusForward(FocusForward(FocusForward(selectedWindow))))
              = selectedWindow
       /\ (zoomed /\ KeyOutputOther) => selectedWindow' = selectedWindow]_vars

\* the focus has gone round to the output pane and the pane is zoomed
FocusOnZoomedOutput ==
    /\ zoomed
    /\ selectedWindow = outputWindow
    /\ width > 0

\* ---------------------------------------------------------------- C33
\* Update has handled a GroupsStart, GroupsError or GroupsLine event
GroupEventStep ==
    \E t \in tasks : \/ handleProcessorGroupsStart(t)
                     \/ handleProcessorGroupError(t)
                     \/ handleProcessorGroupLine(t)

\* C33: once the terminal size is known, after every step the viewport is
\* as wide as the terminal when zoomed and as wide as the terminal less the
\* group list and 4 columns when not, and after every groups event the
\* group list is as wide as its longest name, clamped to 10..100, plus 3.
PaneWidthsFollowLayout ==
    [][/\ width' > 0 =>
              outputModel'.Width = IF zoomed' THEN width' ELSE width' - groupsWidth' - 4
       /\ GroupEventStep => groupsWidth' = getGroupWidth(groups')]_vars

\* ---------------------------------------------------------------- C34
\* C34: after every step that changes the group set, the set holds the
\* sentinel and the items of the list are the names of the set, each once,
\* in ascending order.
GroupListShowsGroupSet ==
    [][groups' # groups =>
          /\ "*" \in groups'
          /\ Range(groupItems') = groups'
          /\ Len(groupItems') = Cardinality(groups')
          /\ \A i, j \in DOMAIN groupItems' :
                 i < j => Rank(groupItems'[i]) < Rank(groupItems'[j])]_vars

\* ---------------------------------------------------------------- C35
\* C35: in the goroutine-per-Start revision at most one task of a kind is
\* executing and sending events at any moment: no two tasks of one kind
\* are inside stream* together with an event of each waiting in
\* program.Send, also when the older of them is still in its replay.
OneSenderPerKind ==
    \A a, b \in tasks :
        (a.kind = b.kind /\ Sending(a) /\ Sending(b)) => a = b

\* ---------------------------------------------------------------- C36
RECURSIVE BrokenAt(_, _)
\* the lengths of the pieces of a line of len columns broken every cap
\* columns
BrokenAt(cap, len) ==
    IF len < cap THEN <<len>> ELSE <<cap>> \o BrokenAt(cap, len - cap)

\* the width a Start command asks for, less the 7 columns of a line number
Asked ==
    stream.Width - (IF stream.LineNumber THEN 7 ELSE 0)

\* C36: for a width above 255 a wrapped line is broken every 255 columns
\* and a cut line longer than that is its first 252 columns and a
\* three-character ellipsis, 255 columns in all; for a width of at most 255
\* the line is broken or cut at the requested width, less 7 when line
\* numbers are on.
FilterKeepsToCap ==
    stream.pc = "sent" =>
        IF Asked > 255
        THEN IF stream.Wrap
             THEN stream.out = BrokenAt(255, stream.len)
             ELSE stream.len > 255 => stream.out = <<255>>
        ELSE IF stream.Wrap
             THEN stream.out = BrokenAt(Asked, stream.len)
             ELSE stream.len >= Asked => stream.out = <<Asked>>

\* ---------------------------------------------------------------- C37
\* C37: zoom is on only while the output pane has the focus: a step that
\* switches zoom on starts with the focus on the output pane, a step taken
\* while zoomed leaves the focus where it is, and so in every state reached
\* a zoomed model has the output pane focused.
ZoomOnlyOnOutput ==
    [][/\ (~zoomed /\ zoomed') => selectedWindow = outputWindow
       /\ (zoomed /\ zoomed') => selectedWindow' = selectedWindow
       /\ zoomed' => selectedWindow' = outputWindow]_vars

\* the pane is zoomed while a content pipeline delivers lines
ZoomedOverContent ==
    /\ zoomed
    /\ selectedWindow = outputWindow
    /\ Len(rawOutputContent) > 1

\* ---------------------------------------------------------------- C38
\* C38: once the terminal size is known and the viewport has a width that
\* is not negative, the formatted cache is the raw cache formatted line by
\* line from line number 1 under the viewport's width and the wrap and
\* line-number flags: as many entries, the same numbers, the same text.
FormattedCacheIsReformat ==
    (width > 0 /\ outputModel.Width >= 0 /\ ~panicked) =>
        outputContent =
            FormatFrom(wrap, lineNumbers, outputModel.Width, rawOutputContent, 1)

\* ---------------------------------------------------------------- C39
\* C39: the width under which cached lines are cut or wrapped, the
\* viewport's, is never negative, and no Update step ends in a panic.
FormatWidthIsNotNegative ==
    /\ outputModel.Width >= 0
    /\ ~panicked

\* ---------------------------------------------------------------- C40
\* C40, as a property of finite runs: a Start command that a tea.Cmd
\* goroutine sends before shutdown is left with Run to be received; no
\* such goroutine is blocked for ever with its command.
StartCommandReachesRun ==
    [][\A cmd \in BagToSet(cmds) :
          (/\ reloadContent(cmd) \/ reloadGroups(cmd)
           /\ uiPc = "run"
           /\ coordPc # "done") => senders' # senders]_vars
====
